---------------------------- MODULE Spec2Model ----------------------------
(***************************************************************************)
(* A model of the process supervisor of src/launcher.py                    *)
(* (class FuxkComfyLauncher and the routes that call it).                  *)
(*                                                                         *)
(* Python values are tagged records [t, v] so that Python's truthiness and *)
(* its type errors can be modelled: t is "bool", "str", "int" or "none".   *)
(* A Python str is a sequence of atoms.  An atom is a TLA+ string; in the  *)
(* lines and messages that are searched for keywords every atom is one     *)
(* character, elsewhere an atom may be a whitespace-free chunk or one      *)
(* whitespace character.                                                   *)
(*                                                                         *)
(* Specifications: SpecCmd (update_config and build_command), SpecLog (the *)
(* log buffer and get_logs), SpecLine (the classification of one output    *)
(* line), Spec (start, stop and restart requests with the output readers   *)
(* and health monitors they start, auto_restart off as in the defaults)    *)
(* and SpecAuto (start requests with auto_restart on); SpecFair (start     *)
(* requests, auto_restart off, every thread scheduled fairly) and SpecHist *)
(* (start requests over the history document of earlier runs);            *)
(* SpecStopAuto (start and stop requests with auto_restart on) and         *)
(* SpecRestart (one start whose child exits, auto_restart on, every thread *)
(* scheduled fairly); SpecReconcile (three start and stop requests in a    *)
(* row), SpecGiveUp (a stop beside a monitor that gives up) and SpecUpdate *)
(* (update_config while a child runs); SpecPreset (the preset routes) and  *)
(* SpecQuery (get_logs iterating the buffer while other threads append and *)
(* clear).                                                                 *)
(* In the life cycle specifications                                        *)
(* the threads interleave at the steps named by thr[t].pc; time            *)
(* is abstract: start_time is the pid of the child started, last_crash_time*)
(* the index of the reader that recorded the crash.  A process exists for  *)
(* psutil as long as it has not exited: zombies and pid reuse are left out.*)
(***************************************************************************)
EXTENDS Integers, Sequences, FiniteSets, TLC

VARIABLES
    config,       \* FuxkComfyLauncher.config: option name -> tagged value
    config_file,  \* the persisted configuration document (launcher_config.json)
    logs,         \* FuxkComfyLauncher.logs: deque(maxlen=2000) of LogEntry
    appended,     \* history variable: every entry appended since the last clear
    ret,          \* the last operation applied and what it returned
    is_running,       \* FuxkComfyLauncher.is_running
    process,          \* FuxkComfyLauncher.process: 0 for None, else the child's pid
    process_pid,      \* system_monitor.process_pid: 0 for None
    start_time,       \* FuxkComfyLauncher.start_time: 0 for None
    restart_attempts, \* FuxkComfyLauncher.restart_attempts
    last_crash_time,  \* FuxkComfyLauncher.last_crash_time: 0 for None
    history,          \* FuxkComfyLauncher.history
    history_file,     \* the persisted history document (launcher_history.json)
    platform,         \* platform.system()
    os,               \* the children spawned so far, by pid: the operating system's view
    thr,              \* the threads: request handlers, output readers, health monitors
    presets,          \* FuxkComfyLauncher.presets: preset name -> configuration
    presets_file,     \* the persisted preset document (launcher_presets.json)
    query             \* the get_logs call in progress: its arguments and its loop

runVars == <<is_running, process, process_pid, start_time, restart_attempts,
             last_crash_time, history, history_file, platform, os, thr>>

presetVars == <<presets, presets_file>>

vars == <<config, config_file, logs, appended, ret, runVars, presetVars, query>>

-----------------------------------------------------------------------------
(* Bounds of the model *)

\* deque(maxlen=2000) scaled down: the capacity of the log buffer in the model
LogCapacity == 3
\* at most this many entries are appended between two clears
MaxAppends == 4
\* at most this many update_config requests
MaxUpdates == 1
\* a line of output is made of at most this many fragments
MaxFrags == 2
\* a start gets past the already-running check while fewer children than this
\* have been spawned
MaxStarts == 2
\* a request thread serves at most this many start, stop and restart requests
MaxRequests == 2
\* and at most this many where a stop follows an earlier stop or a child's own end
MaxReconcileRequests == 3

-----------------------------------------------------------------------------
(* Python values *)

None == [t |-> "none", v |-> "None"]
PyBool(b) == [t |-> "bool", v |-> b]
PyInt(n) == [t |-> "int", v |-> n]
PyStr(s) == [t |-> "str", v |-> s]
\* a str literal without whitespace, as one atom
Lit(a) == PyStr(<<a>>)

\* bool(x)
Truthy(x) ==
    CASE x.t = "bool" -> x.v
      [] x.t = "str" -> x.v # <<>>
      [] x.t = "int" -> x.v # 0
      [] x.t = "none" -> FALSE

Range(s) == {s[i] : i \in 1..Len(s)}

Whitespace == {" ", "\t", "\n"}

RECURSIVE SplitFrom(_, _, _)
\* str.split() of the atoms s: cur is the token being read, s the rest
SplitFrom(s, cur, acc) ==
    IF s = <<>>
    THEN IF cur = <<>> THEN acc ELSE Append(acc, PyStr(cur))
    ELSE IF Head(s) \in Whitespace
         THEN SplitFrom(Tail(s), <<>>, IF cur = <<>> THEN acc ELSE Append(acc, PyStr(cur)))
         ELSE SplitFrom(Tail(s), Append(cur, Head(s)), acc)

split(x) == SplitFrom(x.v, <<>>, <<>>)

UpperCase == <<"A", "B", "C", "D", "E", "F", "G", "H", "I", "J", "K", "L", "M", "N", "O", "P", "Q", "R", "S", "T", "U", "V", "W", "X", "Y", "Z">>
LowerCase == <<"a", "b", "c", "d", "e", "f", "g", "h", "i", "j", "k", "l", "m", "n", "o", "p", "q", "r", "s", "t", "u", "v", "w", "x", "y", "z">>

\* str.lower() on one character
LowerChar(ch) ==
    IF \E i \in 1..Len(UpperCase) : UpperCase[i] = ch
    THEN LowerCase[CHOOSE i \in 1..Len(UpperCase) : UpperCase[i] = ch]
    ELSE ch

\* str.lower() on the characters s
lower(s) == [i \in 1..Len(s) |-> LowerChar(s[i])]

\* `needle in hay` on the characters of two str
Contains(hay, needle) ==
    \E i \in 0..(Len(hay) - Len(needle)) : SubSeq(hay, i + 1, i + Len(needle)) = needle

RECURSIVE lstrip(_)
lstrip(s) == IF s # <<>> /\ Head(s) \in Whitespace THEN lstrip(Tail(s)) ELSE s

RECURSIVE rstrip(_)
rstrip(s) ==
    IF s # <<>> /\ s[Len(s)] \in Whitespace THEN rstrip(SubSeq(s, 1, Len(s) - 1)) ELSE s

\* str.strip()
strip(s) == rstrip(lstrip(s))

\* the list slice s[start:]
SliceFrom(s, start) ==
    LET n == Len(s)
        lo == IF start < 0 THEN (IF start + n < 0 THEN 0 ELSE start + n)
              ELSE (IF start > n THEN n ELSE start)
    IN  SubSeq(s, lo + 1, n)

-----------------------------------------------------------------------------
(* ConfigManager.default_config *)

FlagKeys ==
    {"auto_launch", "gpu_opt", "cpu_mode", "lowvram", "highvram", "normalvram",
     "novram", "fp16_vae", "fp32_vae", "bf16_unet", "fp16_unet", "fp8_e4m3fn_unet",
     "fp8_e5m2_unet", "disable_smart_memory", "deterministic",
     "dont_upcast_attention", "force_upcast_attention", "disable_xformers",
     "use_pytorch_cross_attention", "use_split_cross_attention",
     "use_quad_cross_attention", "use_sage_attention", "use_flash_attention",
     "directml", "gpu_only", "cpu_vae", "async_offload", "disable_mmap",
     "force_channels_last"}

ValueKeys == {"port", "listen", "reserve_vram", "preview_method", "preview_size",
              "extra_args", "python_executable"}

OtherKeys == {"language", "theme", "auto_restart", "max_restart_attempts", "log_level"}

default_config ==
    [k \in FlagKeys \cup ValueKeys \cup OtherKeys |->
        CASE k \in {"auto_launch", "gpu_opt"} -> PyBool(TRUE)
          [] k \in FlagKeys \ {"auto_launch", "gpu_opt"} -> PyBool(FALSE)
          [] k = "port" -> Lit("8188")
          [] k = "listen" -> Lit("0.0.0.0")
          [] k = "preview_method" -> Lit("auto")
          [] k \in {"reserve_vram", "preview_size", "extra_args", "python_executable"} -> PyStr(<<>>)
          [] k = "language" -> Lit("en")
          [] k = "theme" -> Lit("dark")
          [] k = "auto_restart" -> PyBool(FALSE)
          [] k = "max_restart_attempts" -> PyInt(3)
          [] k = "log_level" -> Lit("all")]

\* dict.update / {**a, **b}: the keys of b take b's values, the others keep a's
Merge(a, b) ==
    [k \in DOMAIN a \cup DOMAIN b |-> IF k \in DOMAIN b THEN b[k] ELSE a[k]]

-----------------------------------------------------------------------------
(* LogEntry and FuxkComfyLauncher.log_message *)

\* LogEntry(message, level); the wall-clock timestamp is not modelled
LogEntry(message, level) == [message |-> message, level |-> level]

\* a faulty buffer: once full it refuses the new entry instead of evicting the
\* oldest
DequeAppend_RefusesWhenFull(d, e) ==
    IF Len(d) >= LogCapacity THEN d ELSE Append(d, e)

\* deque.append on a deque(maxlen=LogCapacity)
DequeAppend(d, e) ==
    IF Len(d) >= LogCapacity THEN Append(Tail(d), e) ELSE Append(d, e)

log_message(l, message, level) == DequeAppend(l, LogEntry(message, level))

\* LogEntry.to_dict, without the formatted timestamp
to_dict(e) == [message |-> e.message, level |-> e.level]

\* a faulty filter: the severity of the entry is not looked at
Passes_AnyLevel(e, level_filter, search) ==
    ~(search # <<>> /\ ~Contains(lower(e.message), lower(search)))

\* the test of the loop of get_logs: the entry passes both filters
Passes(e, level_filter, search) ==
    /\ ~(level_filter # "all" /\ e.level # level_filter)
    /\ ~(search # <<>> /\ ~Contains(lower(e.message), lower(search)))

RECURSIVE Filtered(_, _, _)
\* the loop of get_logs over the deque l: filtered_logs
Filtered(l, level_filter, search) ==
    IF l = <<>> THEN <<>>
    ELSE LET rest == Filtered(SubSeq(l, 1, Len(l) - 1), level_filter, search)
             e == l[Len(l)]
         IN  IF Passes(e, level_filter, search) THEN Append(rest, to_dict(e)) ELSE rest

\* get_logs: filtered_logs[-limit:]
get_logs(l, level_filter, search, limit) ==
    SliceFrom(Filtered(l, level_filter, search), -limit)

\* a faulty clear: the entry is appended to the deque as it is
clear_logs_KeepsEntries(l) == log_message(l, <<"Logs cleared">>, "info")

\* clear_logs: the deque emptied, then the entry "Logs cleared"
clear_logs(l) == log_message(<<>>, <<"Logs cleared">>, "info")

\* no get_logs call is in its loop
NoQuery == [pc |-> "none"]

\* a faulty classification: the warning rule is tried before the error rule
level_of_WarningFirst(line) ==
    LET line_lower == lower(line)
    IN  IF Contains(line_lower, <<"w", "a", "r", "n">>)
        THEN "warning"
        ELSE IF Contains(line_lower, <<"e", "r", "r", "o", "r">>) \/ Contains(line_lower, <<"e", "x", "c", "e", "p", "t", "i", "o", "n">>)
                  \/ Contains(line_lower, <<"f", "a", "i", "l", "e", "d">>)
        THEN "error"
        ELSE IF Contains(line_lower, <<"s", "u", "c", "c", "e", "s", "s">>) \/ Contains(line_lower, <<"r", "e", "a", "d", "y">>)
                  \/ Contains(line_lower, <<"s", "t", "a", "r", "t", "e", "d">>)
        THEN "success"
        ELSE "info"

\* the classification of a stripped line in read_output
level_of(line) ==
    LET line_lower == lower(line)
    IN  IF Contains(line_lower, <<"e", "r", "r", "o", "r">>) \/ Contains(line_lower, <<"e", "x", "c", "e", "p", "t", "i", "o", "n">>)
              \/ Contains(line_lower, <<"f", "a", "i", "l", "e", "d">>)
        THEN "error"
        ELSE IF Contains(line_lower, <<"w", "a", "r", "n", "i", "n", "g">>) \/ Contains(line_lower, <<"w", "a", "r", "n">>)
        THEN "warning"
        ELSE IF Contains(line_lower, <<"s", "u", "c", "c", "e", "s", "s">>) \/ Contains(line_lower, <<"r", "e", "a", "d", "y">>)
                  \/ Contains(line_lower, <<"s", "t", "a", "r", "t", "e", "d">>)
        THEN "success"
        ELSE "info"

-----------------------------------------------------------------------------
(* FuxkComfyLauncher.get_config_value, update_config, build_command *)

get_config_value(c, key, default) == IF key \in DOMAIN c THEN c[key] ELSE default

\* sys.executable
SysExecutable == Lit("/usr/bin/python3")

\* the paths for which os.path.isfile answers True
FilesOnDisk == {<<"/opt/venv/python">>}

isfile(x) == x.t = "str" /\ x.v \in FilesOnDisk

\* The chain of `if self.get_config_value(key, dflt): cmd.append(token)` statements
\* of build_command, in source order; neg marks the one `if not ...` test.
FlagRules == <<
    [key |-> "auto_launch", dflt |-> TRUE, neg |-> FALSE, token |-> "--auto-launch"],
    [key |-> "cpu_mode", dflt |-> FALSE, neg |-> FALSE, token |-> "--cpu"],
    [key |-> "gpu_opt", dflt |-> TRUE, neg |-> TRUE, token |-> "--disable-gpu-optimization"],
    [key |-> "lowvram", dflt |-> FALSE, neg |-> FALSE, token |-> "--lowvram"],
    [key |-> "highvram", dflt |-> FALSE, neg |-> FALSE, token |-> "--highvram"],
    [key |-> "normalvram", dflt |-> FALSE, neg |-> FALSE, token |-> "--normalvram"],
    [key |-> "novram", dflt |-> FALSE, neg |-> FALSE, token |-> "--novram"],
    [key |-> "fp16_vae", dflt |-> FALSE, neg |-> FALSE, token |-> "--fp16-vae"],
    [key |-> "fp32_vae", dflt |-> FALSE, neg |-> FALSE, token |-> "--fp32-vae"],
    [key |-> "bf16_unet", dflt |-> FALSE, neg |-> FALSE, token |-> "--bf16-unet"],
    [key |-> "fp16_unet", dflt |-> FALSE, neg |-> FALSE, token |-> "--fp16-unet"],
    [key |-> "fp8_e4m3fn_unet", dflt |-> FALSE, neg |-> FALSE, token |-> "--fp8_e4m3fn-unet"],
    [key |-> "fp8_e5m2_unet", dflt |-> FALSE, neg |-> FALSE, token |-> "--fp8_e5m2-unet"],
    [key |-> "disable_smart_memory", dflt |-> FALSE, neg |-> FALSE, token |-> "--disable-smart-memory"],
    [key |-> "deterministic", dflt |-> FALSE, neg |-> FALSE, token |-> "--deterministic"],
    [key |-> "dont_upcast_attention", dflt |-> FALSE, neg |-> FALSE, token |-> "--dont-upcast-attention"],
    [key |-> "force_upcast_attention", dflt |-> FALSE, neg |-> FALSE, token |-> "--force-upcast-attention"],
    [key |-> "disable_xformers", dflt |-> FALSE, neg |-> FALSE, token |-> "--disable-xformers"],
    [key |-> "use_split_cross_attention", dflt |-> FALSE, neg |-> FALSE, token |-> "--use-split-cross-attention"],
    [key |-> "use_quad_cross_attention", dflt |-> FALSE, neg |-> FALSE, token |-> "--use-quad-cross-attention"],
    [key |-> "use_sage_attention", dflt |-> FALSE, neg |-> FALSE, token |-> "--use-sage-attention"],
    [key |-> "use_flash_attention", dflt |-> FALSE, neg |-> FALSE, token |-> "--use-flash-attention"],
    [key |-> "directml", dflt |-> FALSE, neg |-> FALSE, token |-> "--directml"],
    [key |-> "gpu_only", dflt |-> FALSE, neg |-> FALSE, token |-> "--gpu-only"],
    [key |-> "cpu_vae", dflt |-> FALSE, neg |-> FALSE, token |-> "--cpu-vae"],
    [key |-> "async_offload", dflt |-> FALSE, neg |-> FALSE, token |-> "--async-offload"],
    [key |-> "disable_mmap", dflt |-> FALSE, neg |-> FALSE, token |-> "--disable-mmap"],
    [key |-> "force_channels_last", dflt |-> FALSE, neg |-> FALSE, token |-> "--force-channels-last"] >>

\* a faulty chain: the `if not` of gpu_opt is read as a plain `if`
AppendFlags_NoNegation(c, cmd, i) ==
    LET on(r) == Truthy(get_config_value(c, r.key, PyBool(r.dflt)))
        sel == SelectSeq(FlagRules, on)
    IN  cmd \o [j \in 1..Len(sel) |-> Lit(sel[j].token)]

\* a faulty chain: the tokens come out in the reverse of the order of the tests
AppendFlags_Reversed(c, cmd, i) ==
    LET on(r) == Truthy(get_config_value(c, r.key, PyBool(r.dflt))) # r.neg
        sel == SelectSeq(FlagRules, on)
    IN  cmd \o [j \in 1..Len(sel) |-> Lit(sel[Len(sel) + 1 - j].token)]

RECURSIVE AppendFlags(_, _, _)
\* runs the rules i.. of FlagRules on cmd
AppendFlags(c, cmd, i) ==
    IF i > Len(FlagRules) THEN cmd
    ELSE LET r == FlagRules[i]
             on == Truthy(get_config_value(c, r.key, PyBool(r.dflt)))
         IN  AppendFlags(c, IF on # r.neg THEN Append(cmd, Lit(r.token)) ELSE cmd, i + 1)

\* lines 276-286: the interpreter, the entry script, the platform flag, port and listen
BaseCommand(c) ==
    LET python_exe == get_config_value(c, "python_executable", PyStr(<<>>))
        exe == IF Truthy(python_exe) /\ isfile(python_exe) THEN python_exe ELSE SysExecutable
    IN  << exe, Lit("-s"), Lit("main.py"), Lit("--windows-standalone-build"),
           Lit("--port"), get_config_value(c, "port", Lit("8188")),
           Lit("--listen"), get_config_value(c, "listen", Lit("0.0.0.0")) >>

\* a faulty builder: the preview method "auto" is passed on like any other
ValueOptions_AutoToo(c, cmd) ==
    LET reserve_vram == get_config_value(c, "reserve_vram", PyStr(<<>>))
        preview_method == get_config_value(c, "preview_method", Lit("auto"))
        preview_size == get_config_value(c, "preview_size", PyStr(<<>>))
        extra_args == get_config_value(c, "extra_args", PyStr(<<>>))
        c1 == IF Truthy(reserve_vram)
              THEN cmd \o <<Lit("--reserve-vram"), reserve_vram>> ELSE cmd
        c2 == IF Truthy(preview_method)
              THEN c1 \o <<Lit("--preview-method"), preview_method>> ELSE c1
        c3 == IF Truthy(preview_size)
              THEN c2 \o <<Lit("--preview-size"), preview_size>> ELSE c2
    IN  IF ~Truthy(extra_args) THEN [raised |-> FALSE, cmd |-> c3]
        ELSE IF extra_args.t = "str" THEN [raised |-> FALSE, cmd |-> c3 \o split(extra_args)]
        ELSE [raised |-> TRUE, cmd |-> <<>>]

\* lines 345-359: the value-bearing options and the extra arguments.
\* extra_args.split() raises AttributeError when extra_args is truthy and no str.
ValueOptions(c, cmd) ==
    LET reserve_vram == get_config_value(c, "reserve_vram", PyStr(<<>>))
        preview_method == get_config_value(c, "preview_method", Lit("auto"))
        preview_size == get_config_value(c, "preview_size", PyStr(<<>>))
        extra_args == get_config_value(c, "extra_args", PyStr(<<>>))
        c1 == IF Truthy(reserve_vram)
              THEN cmd \o <<Lit("--reserve-vram"), reserve_vram>> ELSE cmd
        c2 == IF Truthy(preview_method) /\ preview_method # Lit("auto")
              THEN c1 \o <<Lit("--preview-method"), preview_method>> ELSE c1
        c3 == IF Truthy(preview_size)
              THEN c2 \o <<Lit("--preview-size"), preview_size>> ELSE c2
    IN  IF ~Truthy(extra_args) THEN [raised |-> FALSE, cmd |-> c3]
        ELSE IF extra_args.t = "str" THEN [raised |-> FALSE, cmd |-> c3 \o split(extra_args)]
        ELSE [raised |-> TRUE, cmd |-> <<>>]

\* build_command: [raised, cmd]; raised when the function ends with an exception
build_command(c) == ValueOptions(c, AppendFlags(c, BaseCommand(c), 1))

\* the entry build_command logs about the interpreter it chose
InterpreterLog(c) ==
    LET python_exe == get_config_value(c, "python_executable", PyStr(<<>>))
    IN  IF Truthy(python_exe) /\ isfile(python_exe)
        THEN LogEntry(<<"Using custom Python: ">> \o python_exe.v, "info")
        ELSE LogEntry(<<"Using system Python: ">> \o SysExecutable.v, "info")

\* a faulty update: the configuration is replaced by the request body
update_config_Replaces(c, updates) == updates

\* dict.update(updates)
update_config(c, updates) == Merge(c, updates)

-----------------------------------------------------------------------------
(* ConfigManager.load and save *)

\* the document of a configuration file that does not exist or does not parse
NoFile == [t |-> "nofile"]

\* ConfigManager.load: the defaults overlaid with the persisted document
load(file) == IF file = NoFile THEN default_config ELSE Merge(default_config, file)

\* the "performance" preset of ConfigManager.load_presets
PerformancePreset ==
    [k \in {"port", "listen", "auto_launch", "gpu_opt", "cpu_mode", "lowvram", "highvram",
            "normalvram", "extra_args", "theme", "auto_restart",
            "max_restart_attempts", "log_level"} |->
        CASE k = "port" -> Lit("8188")
          [] k = "listen" -> Lit("0.0.0.0")
          [] k \in {"gpu_opt", "highvram"} -> PyBool(TRUE)
          [] k \in {"auto_launch", "cpu_mode", "lowvram", "normalvram", "auto_restart"} -> PyBool(FALSE)
          [] k = "extra_args" ->
                PyStr(<<"--preview-method", " ", "auto", " ", "--cache-lru", " ", "32">>)
          [] k = "theme" -> Lit("dark")
          [] k = "max_restart_attempts" -> PyInt(3)
          [] k = "log_level" -> Lit("all")]

\* the "low_memory" preset of ConfigManager.load_presets
LowMemoryPreset ==
    [PerformancePreset EXCEPT !["lowvram"] = PyBool(TRUE), !["highvram"] = PyBool(FALSE),
                              !["extra_args"] = PyStr(<<"--cache-lru", " ", "8">>)]

\* a JSON object as a Python dict; bool(d) is d # {}
PyDict(d) == [t |-> "dict", v |-> d]
IsTrue(x) == IF x.t = "dict" THEN DOMAIN x.v # {} ELSE Truthy(x)

\* ConfigManager.load_presets: the document, or the three built-in presets when
\* there is none; a preset collection maps names (str) to configurations
load_presets(file) ==
    IF file = NoFile
    THEN [n \in {Lit("default"), Lit("performance"), Lit("low_memory")} |->
            CASE n = Lit("default") -> PyDict(default_config)
              [] n = Lit("performance") -> PyDict(PerformancePreset)
              [] n = Lit("low_memory") -> PyDict(LowMemoryPreset)]
    ELSE file

\* every flag switched off, the value-bearing options empty, no port and no listen
AllOff ==
    [k \in FlagKeys \cup (ValueKeys \ {"port", "listen"}) |->
        IF k \in FlagKeys THEN PyBool(FALSE) ELSE PyStr(<<>>)]

\* the same with the inverted gpu_opt left at its default
Quiet == [AllOff EXCEPT !["gpu_opt"] = PyBool(TRUE)]

\* the persisted documents the launcher may find at startup
PersistedDocs ==
    {NoFile,
     [k \in {"lowvram", "custom_key"} |-> IF k = "lowvram" THEN PyBool(TRUE) ELSE Lit("x")]}

\* the configurations build_command is applied to: what load returns, and the
\* dictionaries with missing keys that its own fallback defaults provide for
InputConfigs ==
    {load(f) : f \in PersistedDocs} \cup {PerformancePreset, AllOff, Quiet, << >>}

\* the values a request to /api/config may carry for a key
UpdateValues(k) ==
    CASE k \in FlagKeys -> {PyBool(TRUE), PyBool(FALSE)}
      [] k = "port" -> {Lit("9000"), PyInt(8188)}
      [] k = "listen" -> {Lit("127.0.0.1")}
      [] k = "reserve_vram" -> {PyStr(<<>>), Lit("2"), PyInt(4)}
      [] k = "preview_method" -> {PyStr(<<>>), Lit("auto"), Lit("latent2rgb")}
      [] k = "preview_size" -> {PyStr(<<>>), Lit("512")}
      [] k = "extra_args" ->
            {PyStr(<<>>), PyStr(<<" ", "--fast", "\t", " ", "--x", "=1", "\n">>), PyInt(5)}
      [] k = "python_executable" -> {Lit("/opt/venv/python"), Lit("/missing/python")}
      [] k = "theme" -> {Lit("light")}
      [] k = "custom_key" -> {Lit("y")}
      [] OTHER -> {}

UpdateKeys == FlagKeys \cup ValueKeys \cup {"theme", "custom_key"}

-----------------------------------------------------------------------------
(* The run state and the operating system's processes *)

\* the request-handling threads of the HTTP layer (flask, threaded=True)
Clients == {<<"api", 1>>}

\* the API thread and a monitor thread that both passed the already-running
\* check before either recorded its start each spawn a child: one child more
\* than MaxStarts can come to exist
MaxChildren == MaxStarts + 1

ThreadIds ==
    Clients \cup {<<"rdr", k>> : k \in 1..MaxChildren} \cup {<<"mon", k>> : k \in 1..MaxChildren}

\* what a route returns: {"success", "message", "pid"}; pid 0 when there is none
Result(success, message, pid) == [success |-> success, message |-> message, pid |-> pid]
NoResult == Result(FALSE, <<>>, 0)

\* a thread: pc is its position, op/force the request it serves, pid and kids the
\* locals of stop_fuxkcomfy (and the child a start spawned), stream the process
\* whose stdout a reader reads, served the number of requests a request thread
\* has taken, res what the last call returned
NoThread == [pc |-> "none", op |-> "none", force |-> FALSE, pid |-> 0, kids |-> {},
             stream |-> 0, served |-> 0, res |-> NoResult]

\* the descendants a child may have; the first honours a terminate request
Descendants == {"worker", "stubborn_worker"}
KidObeys(d) == d = "worker"

\* the children a spawn may produce: whether the child honours a terminate
\* request, and the descendants it starts
ChildKinds ==
    { [obeys |-> TRUE, kids |-> {}], [obeys |-> TRUE, kids |-> Descendants],
      [obeys |-> FALSE, kids |-> Descendants] }

\* the exit codes of a child that ends by itself
ExitCodes == {0, 1}

\* the output a child writes before it ends
SampleLines == { <<"S", "e", "r", "v", "e", "r", " ", "s", "t", "a", "r", "t", "e", "d", "\n">> }

\* the process with pid k exists
Exists(k) == k \in 1..Len(os) /\ os[k].alive

\* Process.kill() on child k
KillParent(o, k) ==
    IF o[k].alive THEN [o EXCEPT ![k].alive = FALSE, ![k].code = PyInt(-9)] ELSE o

\* Process.terminate() on child k: a child that ignores the request lives on
TerminateParent(o, k) ==
    IF o[k].alive /\ o[k].obeys
    THEN [o EXCEPT ![k].alive = FALSE, ![k].code = PyInt(-15)] ELSE o

\* kill() on each of the descendants ds of child k
KillKids(o, k, ds) == [o EXCEPT ![k].kids = @ \ ds]

\* terminate() on each of the descendants ds of child k
TerminateKids(o, k, ds) == [o EXCEPT ![k].kids = @ \ {d \in ds : KidObeys(d)}]

RECURSIVE AppendAll(_, _)
\* several log_message calls in a row
AppendAll(l, es) == IF es = <<>> THEN l ELSE AppendAll(DequeAppend(l, Head(es)), Tail(es))

\* str(x) inside an f-string
str(x) == IF x.t = "str" THEN x.v ELSE IF x.t = "none" THEN <<"None">> ELSE <<ToString(x.v)>>

RECURSIVE JoinFrom(_, _)
JoinFrom(cmd, i) ==
    IF i > Len(cmd) THEN <<>>
    ELSE (IF i = 1 THEN <<>> ELSE <<" ">>) \o cmd[i].v \o JoinFrom(cmd, i + 1)

\* ' '.join(cmd): raises TypeError when an element is no str
join(cmd) ==
    IF \E i \in 1..Len(cmd) : cmd[i].t # "str"
    THEN [raised |-> TRUE, v |-> <<>>]
    ELSE [raised |-> FALSE, v |-> JoinFrom(cmd, 1)]

\* save_history writes the last 50 entries
HistoryKeep == 50
save_history(h) == SliceFrom(h, -HistoryKeep)

\* load_history returns the last 50 entries of the document
load_history(file) == SliceFrom(file, -HistoryKeep)

\* FuxkComfyLauncher.__init__, line 261: the presets are loaded from one of the
\* documents files
PresetsLoaded(files) ==
    /\ presets_file \in files
    /\ presets = load_presets(presets_file)

RunIdle ==
    /\ is_running = FALSE
    /\ process = 0
    /\ process_pid = 0
    /\ start_time = 0
    /\ restart_attempts = 0
    /\ last_crash_time = 0
    /\ history = << >>
    /\ history_file = << >>
    /\ platform = "Linux"
    /\ os = << >>
    /\ thr = [t \in ThreadIds |-> NoThread]
    /\ query = NoQuery

-----------------------------------------------------------------------------
(* The command builder on its own: SpecCmd *)

InitCmd ==
    /\ RunIdle
    /\ PresetsLoaded({NoFile})
    /\ config \in InputConfigs
    /\ config_file = NoFile
    /\ logs = << >>
    /\ appended = << >>
    /\ ret = [op |-> "none", updates |-> 0]

\* POST /api/config with a one-key body: update_config merges and saves
UpdateConfig(k, v, saved) ==
    /\ ret.updates < MaxUpdates
    /\ config' = update_config(config, (k :> v))
    /\ config_file' = IF saved THEN config' ELSE config_file
    /\ ret' = [op |-> "update_config", updates |-> ret.updates + 1, success |-> saved]
    /\ UNCHANGED <<logs, appended, runVars, presetVars, query>>

\* a call of build_command on the current configuration
BuildCommand ==
    /\ ret.op # "build_command"
    /\ LET r == build_command(config)
       IN  /\ ret' = [op |-> "build_command", updates |-> ret.updates,
                      raised |-> r.raised, cmd |-> r.cmd]
           /\ logs' = DequeAppend(logs, InterpreterLog(config))
    /\ UNCHANGED <<config, config_file, appended, runVars, presetVars, query>>

NextCmd ==
    \/ \E k \in UpdateKeys : \E v \in UpdateValues(k) : \E saved \in BOOLEAN :
          UpdateConfig(k, v, saved)
    \/ BuildCommand

SpecCmd == InitCmd /\ [][NextCmd]_vars

-----------------------------------------------------------------------------
(* The log buffer on its own: SpecLog *)

LogMessages == { <<"a", "B">>, <<"b", "a">> }
LogLevels == {"info", "error"}
LevelFilters == {"all", "info", "error", "warning"}
Searches == { <<>>, <<"A", "b">>, <<"b">> }
Limits == (-1)..(LogCapacity + 1)

InitLog ==
    /\ RunIdle
    /\ PresetsLoaded({NoFile})
    /\ config = default_config
    /\ config_file = NoFile
    /\ logs = << >>
    /\ appended = << >>
    /\ ret = [op |-> "none"]

\* a call of log_message, by the output reader or by the supervisor
LogAppend(message, level) ==
    /\ Len(appended) < MaxAppends
    /\ logs' = log_message(logs, message, level)
    /\ appended' = Append(appended, LogEntry(message, level))
    /\ ret' = [op |-> "log_message"]
    /\ UNCHANGED <<config, config_file, runVars, presetVars, query>>

\* POST /api/logs/clear
ClearLogs ==
    /\ logs' = clear_logs(logs)
    /\ appended' = << LogEntry(<<"Logs cleared">>, "info") >>
    /\ ret' = [op |-> "clear_logs"]
    /\ UNCHANGED <<config, config_file, runVars, presetVars, query>>

\* GET /api/logs?level=..&search=..&limit=..
GetLogs(level_filter, search, limit) ==
    /\ ret.op # "get_logs"   \* a second query of the same buffer adds nothing
    /\ ret' = [op |-> "get_logs", level_filter |-> level_filter, search |-> search,
               limit |-> limit, result |-> get_logs(logs, level_filter, search, limit)]
    /\ UNCHANGED <<config, config_file, logs, appended, runVars, presetVars, query>>

NextLog ==
    \/ \E m \in LogMessages : \E lv \in LogLevels : LogAppend(m, lv)
    \/ ClearLogs
    \/ \E f \in LevelFilters : \E q \in Searches : \E n \in Limits : GetLogs(f, q, n)

SpecLog == InitLog /\ [][NextLog]_vars

-----------------------------------------------------------------------------
(* get_logs running beside the threads that write the log: SpecQuery *)

\* a deque iterator remembers the deque's mutation count; append and clear
\* advance it, so an iterator in its loop has seen the deque mutated
Mutated(q) == IF q.pc = "loop" THEN [q EXCEPT !.mutated = TRUE] ELSE q

\* log_message called by another thread
QueryAppend(message, level) ==
    /\ Len(appended) < MaxAppends
    /\ logs' = log_message(logs, message, level)
    /\ appended' = Append(appended, LogEntry(message, level))
    /\ query' = Mutated(query)
    /\ UNCHANGED <<config, config_file, ret, runVars, presetVars>>

\* POST /api/logs/clear handled by another thread
QueryClear ==
    /\ logs' = clear_logs(logs)
    /\ appended' = << LogEntry(<<"Logs cleared">>, "info") >>
    /\ query' = Mutated(query)
    /\ UNCHANGED <<config, config_file, ret, runVars, presetVars>>

\* get_logs, lines 617-619: filtered_logs = [] and the iterator over self.logs
QueryStart(level_filter, search, limit) ==
    /\ query = NoQuery
    /\ query' = [pc |-> "loop", level_filter |-> level_filter, search |-> search,
                 limit |-> limit, index |-> 1, filtered |-> << >>, mutated |-> FALSE]
    /\ UNCHANGED <<config, config_file, logs, appended, ret, runVars, presetVars>>

\* get_logs, lines 619-626: one turn of the loop.  The iterator raises
\* RuntimeError (deque mutated during iteration) when the deque was changed
\* since the loop began; at the end of the deque the slice is returned.
QueryNext ==
    /\ query.pc = "loop"
    /\ IF query.mutated
       THEN /\ ret' = [op |-> "get_logs", raised |-> TRUE, result |-> << >>]
            /\ query' = NoQuery
       ELSE IF query.index > Len(logs)
       THEN /\ ret' = [op |-> "get_logs", raised |-> FALSE,
                       result |-> SliceFrom(query.filtered, -query.limit)]
            /\ query' = NoQuery
       ELSE /\ query' = [query EXCEPT
                            !.index = @ + 1,
                            !.filtered = IF Passes(logs[query.index], query.level_filter,
                                                   query.search)
                                         THEN Append(@, to_dict(logs[query.index]))
                                         ELSE @]
            /\ UNCHANGED ret
    /\ UNCHANGED <<config, config_file, logs, appended, runVars, presetVars>>

NextQuery ==
    \/ \E lv \in LogLevels : QueryAppend(<<"a", "B">>, lv)
    \/ QueryClear
    \/ \E f \in {"all", "error"} : \E n \in {1, LogCapacity + 1} : QueryStart(f, << >>, n)
    \/ QueryNext

SpecQuery == InitLog /\ [][NextQuery]_vars

-----------------------------------------------------------------------------
(* The per-line step of the output reader on its own: SpecLine *)

\* the pieces the lines of output are made of
Fragments ==
    { <<"e", "r", "r", "o", "r">>, <<"E", "x", "c", "e", "p", "t", "i", "o", "n">>, <<"F", "A", "I", "L">>, <<"E", "D">>, <<"W", "a", "r", "n">>, <<"i", "n", "g">>, <<"S", "U", "C", "C", "E", "S", "S">>,
      <<"r", "e", "a", "d", "y">>, <<"S", "t", "a", "r", "t">>, <<"x", " ">>, <<"o", "k">> }

RECURSIVE LinesOf(_)
\* the concatenations of at most n fragments
LinesOf(n) ==
    IF n = 0 THEN {<<>>}
    ELSE LET shorter == LinesOf(n - 1)
         IN  shorter \cup {l \o f : l \in shorter, f \in Fragments}

\* what readline returns: a line with its newline
RawLines == {l \o <<"\n">> : l \in LinesOf(MaxFrags)}

InitLine ==
    /\ RunIdle
    /\ PresetsLoaded({NoFile})
    /\ config = default_config
    /\ config_file = NoFile
    /\ logs = << >>
    /\ appended = << >>
    /\ ret \in {[op |-> "readline", line |-> l] : l \in RawLines}

\* the body of the loop of read_output for one line: strip, classify, log
ReadOutputLine ==
    /\ ret.op = "readline"
    /\ ret.line # <<>>
    /\ LET line == strip(ret.line)
           level == level_of(line)
       IN  /\ logs' = log_message(logs, line, level)
           /\ ret' = [op |-> "logged", raw |-> ret.line]
    /\ UNCHANGED <<config, config_file, appended, runVars, presetVars, query>>

NextLine == ReadOutputLine

SpecLine == InitLine /\ [][NextLine]_vars

-----------------------------------------------------------------------------
(* The preset routes on their own: SpecPreset *)

\* a configuration a client sends as a preset
ClientPreset == PyDict(Quiet)

\* the preset documents the launcher may find: none, and one with a preset of
\* the user's beside "default"
PresetDocuments ==
    {NoFile,
     [n \in {Lit("default"), Lit("mine")} |->
         IF n = Lit("default") THEN PyDict(default_config) ELSE ClientPreset]}

\* data.get('name') and data.get('config') of a POST /api/presets body
PostedNames == {Lit("default"), Lit("performance"), Lit("mine"), PyStr(<<>>), None}
PostedConfigs == {ClientPreset, PyDict(<< >>), None}
\* the <name> of DELETE /api/presets/<name>
DeletedNames == {Lit("default"), Lit("performance"), Lit("low_memory"), Lit("mine")}

InitPreset ==
    /\ RunIdle
    /\ PresetsLoaded(PresetDocuments)
    /\ config = default_config
    /\ config_file = NoFile
    /\ logs = << >>
    /\ appended = << >>
    /\ ret = [op |-> "none"]

\* save_presets writes the collection; saved tells whether the write succeeds
save_presets(p, saved) == IF saved THEN p ELSE presets_file

\* POST /api/presets, lines 709-718
save_preset(preset_name, preset_config, saved) ==
    /\ IF IsTrue(preset_name) /\ IsTrue(preset_config)
       THEN /\ presets' = (preset_name :> preset_config) @@ presets
            /\ presets_file' = save_presets(presets', saved)
            /\ ret' = [op |-> "save_preset", name |-> preset_name, success |-> saved]
       ELSE /\ ret' = [op |-> "save_preset", name |-> preset_name, success |-> FALSE]
            /\ UNCHANGED presetVars
    /\ UNCHANGED <<config, config_file, logs, appended, runVars, query>>

\* a faulty test: any preset of the collection may be deleted
Deletable_AnyPreset(p, name) == name \in DOMAIN p

\* line 722: name in launcher.presets and name != 'default'
Deletable(p, name) == name \in DOMAIN p /\ name # Lit("default")

\* DELETE /api/presets/<name>, lines 720-726
delete_preset(name, saved) ==
    /\ IF Deletable(presets, name)
       THEN /\ presets' = [n \in DOMAIN presets \ {name} |-> presets[n]]
            /\ presets_file' = save_presets(presets', saved)
            /\ ret' = [op |-> "delete_preset", name |-> name, success |-> saved]
       ELSE /\ ret' = [op |-> "delete_preset", name |-> name, success |-> FALSE]
            /\ UNCHANGED presetVars
    /\ UNCHANGED <<config, config_file, logs, appended, runVars, query>>

NextPreset ==
    \/ \E n \in PostedNames, c \in PostedConfigs, saved \in BOOLEAN : save_preset(n, c, saved)
    \/ \E n \in DeletedNames, saved \in BOOLEAN : delete_preset(n, saved)

SpecPreset == InitPreset /\ [][NextPreset]_vars

-----------------------------------------------------------------------------
(* The supervisor: Spec *)

\* the configurations with the health monitor's restart enabled, as a persisted
\* document sets them
AutoConfigs ==
    {Merge(default_config,
           [k \in {"auto_restart", "max_restart_attempts"} |->
               IF k = "auto_restart" THEN PyBool(TRUE) ELSE PyInt(n)]) : n \in {1, 3}}

\* the launcher after construction with one of the configurations cfgs, on one
\* of the platforms, with one of the history documents files on disk
InitLoaded(cfgs, platforms, files) ==
    /\ config \in cfgs
    /\ config_file = NoFile
    /\ logs = << >>
    /\ appended = << >>
    /\ ret = [op |-> "none"]
    /\ is_running = FALSE
    /\ process = 0
    /\ process_pid = 0
    /\ start_time = 0
    /\ restart_attempts = 0
    /\ last_crash_time = 0
    /\ history_file \in files
    /\ history = load_history(history_file)
    /\ platform \in platforms
    /\ os = << >>
    /\ thr = [t \in ThreadIds |-> IF t \in Clients THEN [NoThread EXCEPT !.pc = "idle"]
                                                    ELSE NoThread]
    /\ PresetsLoaded({NoFile})
    /\ query = NoQuery

\* no history document yet
InitRun(cfgs, platforms) == InitLoaded(cfgs, platforms, {<< >>})

\* no configuration file: the defaults, auto_restart off
Init == InitRun({default_config}, {"Windows", "Linux"})

\* nothing is stopped under SpecAuto, so the platform makes no difference
InitAuto == InitRun(AutoConfigs, {"Linux"})

\* what no action of the supervisor changes
fixedVars == <<config, config_file, appended, ret, platform, presets, presets_file, query>>

\* where a thread goes when the call it runs returns r
Return(t, r) == [thr EXCEPT ![t] = [NoThread EXCEPT !.pc = "done", !.op = thr[t].op,
                                              !.served = thr[t].served, !.res = r]]

\* a faulty handler: the failure is logged and a success returned
StartFailed_ReportsSuccess(t, l) ==
    /\ logs' = AppendAll(l, << LogEntry(<<"Failed to start process: ", "<error>">>, "error") >>)
    /\ thr' = Return(t, Result(TRUE, <<"Process started successfully">>, 0))

\* the handler of the except clause of start_fuxkcomfy
StartFailed(t, l) ==
    /\ logs' = AppendAll(l, << LogEntry(<<"Failed to start process: ", "<error>">>, "error") >>)
    /\ thr' = Return(t, Result(FALSE, <<"Start failed: ", "<error>">>, 0))

\* POST /api/start, /api/stop, /api/restart arriving at a request thread that
\* has served fewer than n requests
RequestWithin(c, op, force, n) ==
    /\ thr[c].pc \in {"idle", "done"}
    /\ thr[c].served < n
    /\ thr' = [thr EXCEPT ![c] = [NoThread EXCEPT !.pc = op, !.op = op, !.force = force,
                                                  !.served = thr[c].served + 1]]
    /\ UNCHANGED <<is_running, process, process_pid, start_time, restart_attempts,
                   last_crash_time, history, history_file, os, logs, fixedVars>>

Request(c, op, force) == RequestWithin(c, op, force, MaxRequests)

\* a faulty start: the running flag is not looked at
StartCheck_Unguarded(t) ==
    /\ thr[t].pc = "start"
    /\ Len(os) < MaxStarts
    /\ thr' = [thr EXCEPT ![t].pc = "spawn"]
    /\ UNCHANGED <<is_running, process, process_pid, start_time, restart_attempts,
                   last_crash_time, history, history_file, os, logs, fixedVars>>

\* start_fuxkcomfy, line 368: the already-running check
StartCheck(t) ==
    /\ thr[t].pc = "start"
    /\ IF is_running
       THEN thr' = Return(t, Result(FALSE, <<"Process already running">>, 0))
       ELSE /\ Len(os) < MaxStarts
            /\ thr' = [thr EXCEPT ![t].pc = "spawn"]
    /\ UNCHANGED <<is_running, process, process_pid, start_time, restart_attempts,
                   last_crash_time, history, history_file, os, logs, fixedVars>>

\* start_fuxkcomfy, lines 372-393: build the command, record it in the history,
\* spawn the child.  spawned tells whether Popen succeeds; kind is the new
\* child's way with a terminate request and its descendants, line its output.
StartSpawn(t, spawned, kind, line) ==
    /\ thr[t].pc = "spawn"
    /\ LET b == build_command(config)
           cmd_str == join(b.cmd)
           l1 == DequeAppend(logs, InterpreterLog(config))
       IN  IF b.raised \/ cmd_str.raised
           THEN /\ StartFailed(t, l1)
                /\ UNCHANGED <<history, history_file, os, process>>
           ELSE LET l2 == DequeAppend(l1, LogEntry(<<"Starting: ">> \o cmd_str.v, "info"))
                    h == Append(history, [command |-> cmd_str.v, config |-> config])
                    pid == Len(os) + 1
                IN  /\ history' = h
                    /\ history_file' = save_history(h)
                    /\ IF spawned
                       THEN /\ os' = Append(os, [alive |-> TRUE, code |-> None,
                                                 obeys |-> kind.obeys, kids |-> kind.kids,
                                                 out |-> <<line>>])
                            /\ process' = pid
                            /\ logs' = l2
                            /\ thr' = [thr EXCEPT ![t].pc = "mark", ![t].pid = pid]
                       ELSE /\ StartFailed(t, l2)
                            /\ UNCHANGED <<os, process>>
    /\ UNCHANGED <<is_running, process_pid, start_time, restart_attempts, last_crash_time,
                   fixedVars>>

\* start_fuxkcomfy, lines 395-396
StartMark(t) ==
    /\ thr[t].pc = "mark"
    /\ is_running' = TRUE
    /\ start_time' = thr[t].pid
    /\ thr' = [thr EXCEPT ![t].pc = "pidset"]
    /\ UNCHANGED <<process, process_pid, restart_attempts, last_crash_time, history,
                   history_file, os, logs, fixedVars>>

\* a faulty start: the restart counter is left as it is
StartPid_KeepsCounter(t) ==
    /\ thr[t].pc = "pidset"
    /\ IF process = 0
       THEN /\ StartFailed(t, logs)
            /\ UNCHANGED process_pid
       ELSE LET k == thr[t].pid
                r == Result(TRUE, <<"Process started successfully">>, process)
            IN  /\ process_pid' = process
                /\ logs' = DequeAppend(logs,
                      LogEntry(<<"Process started successfully (PID: ", ToString(process), ")">>,
                               "success"))
                /\ thr' = [Return(t, r) EXCEPT
                              ![<<"rdr", k>>] = [NoThread EXCEPT !.pc = "read", !.stream = process],
                              ![<<"mon", k>>] = [NoThread EXCEPT !.pc = "while"]]
    /\ UNCHANGED <<is_running, process, start_time, restart_attempts, last_crash_time,
                   history, history_file, os, fixedVars>>

\* start_fuxkcomfy, lines 397-404: the identifier is remembered, the counter
\* reset, the reader and the monitor of this lifetime started; the reader reads
\* the stdout of the process stored now.  self.process.pid raises when process
\* is None.
StartPid(t) ==
    /\ thr[t].pc = "pidset"
    /\ IF process = 0
       THEN /\ StartFailed(t, logs)
            /\ UNCHANGED <<process_pid, restart_attempts>>
       ELSE LET k == thr[t].pid
                r == Result(TRUE, <<"Process started successfully">>, process)
            IN  /\ process_pid' = process
                /\ restart_attempts' = 0
                /\ logs' = DequeAppend(logs,
                      LogEntry(<<"Process started successfully (PID: ", ToString(process), ")">>,
                               "success"))
                /\ thr' = [Return(t, r) EXCEPT
                              ![<<"rdr", k>>] = [NoThread EXCEPT !.pc = "read", !.stream = process],
                              ![<<"mon", k>>] = [NoThread EXCEPT !.pc = "while"]]
    /\ UNCHANGED <<is_running, process, start_time, last_crash_time, history,
                   history_file, os, fixedVars>>

\* a faulty restart: start follows the stop whatever the stop reported
StopReturns_StartsAnyway(t, r) ==
    IF thr[t].op = "restart"
    THEN [thr EXCEPT ![t].pc = "start", ![t].res = r]
    ELSE Return(t, r)

\* stop_fuxkcomfy returns r to its caller: the route, or restart_fuxkcomfy
\* (lines 559-563), which goes on to start only after a success and else
\* returns r itself
StopReturns(t, r) ==
    IF thr[t].op = "restart" /\ r.success
    THEN [thr EXCEPT ![t].pc = "start", ![t].res = r]
    ELSE Return(t, r)

\* a faulty entry: the refusal is logged
StopEntry_LogsRefusal(t) ==
    /\ thr[t].pc = "stop"
    /\ IF process = 0
       THEN IF process_pid # 0
            THEN /\ logs' = DequeAppend(logs,
                       LogEntry(<<"Found orphaned PID ", ToString(process_pid),
                                  ", attempting cleanup...">>, "warning"))
                 /\ thr' = [thr EXCEPT ![t].pc = "stop_check", ![t].pid = process_pid]
            ELSE /\ thr' = StopReturns(t, Result(FALSE, <<"Process not running">>, 0))
                 /\ logs' = DequeAppend(logs, LogEntry(<<"Process not running">>, "warning"))
       ELSE /\ thr' = [thr EXCEPT ![t].pc = "stop_check", ![t].pid = process]
            /\ UNCHANGED logs
    /\ UNCHANGED <<is_running, process, process_pid, start_time, restart_attempts,
                   last_crash_time, history, history_file, os, fixedVars>>

\* stop_fuxkcomfy, lines 411-418: which pid to stop
StopEntry(t) ==
    /\ thr[t].pc = "stop"
    /\ IF process = 0
       THEN IF process_pid # 0
            THEN /\ logs' = DequeAppend(logs,
                       LogEntry(<<"Found orphaned PID ", ToString(process_pid),
                                  ", attempting cleanup...">>, "warning"))
                 /\ thr' = [thr EXCEPT ![t].pc = "stop_check", ![t].pid = process_pid]
            ELSE /\ thr' = StopReturns(t, Result(FALSE, <<"Process not running">>, 0))
                 /\ UNCHANGED logs
       ELSE /\ thr' = [thr EXCEPT ![t].pc = "stop_check", ![t].pid = process]
            /\ UNCHANGED logs
    /\ UNCHANGED <<is_running, process, process_pid, start_time, restart_attempts,
                   last_crash_time, history, history_file, os, fixedVars>>

\* a faulty check: the flag is trusted and the operating system is not asked
StopCheck_TrustsFlag(t) ==
    /\ thr[t].pc = "stop_check"
    /\ IF ~is_running /\ process # 0
       THEN /\ logs' = AppendAll(logs,
                  << LogEntry(<<"Process object exists but is_running=False, checking actual status...">>,
                              "warning"),
                     LogEntry(<<"Process confirmed not running">>, "info") >>)
            /\ is_running' = FALSE
            /\ process' = 0
            /\ thr' = [thr EXCEPT ![t].pc = "stop_forget"]
       ELSE /\ thr' = [thr EXCEPT ![t].pc = "stop_kill"]
            /\ UNCHANGED <<logs, is_running, process>>
    /\ UNCHANGED <<process_pid, start_time, restart_attempts, last_crash_time, history,
                   history_file, os, fixedVars>>

\* stop_fuxkcomfy, lines 420-430: a stored handle with is_running false is
\* checked against the operating system
StopCheck(t) ==
    /\ thr[t].pc = "stop_check"
    /\ IF ~is_running /\ process # 0
       THEN LET l1 == DequeAppend(logs,
                        LogEntry(<<"Process object exists but is_running=False, checking actual status...">>,
                                 "warning"))
            IN  IF Exists(thr[t].pid)
                THEN /\ logs' = DequeAppend(l1,
                           LogEntry(<<"Process ", ToString(thr[t].pid),
                                      " is actually running, correcting state...">>, "info"))
                     /\ is_running' = TRUE
                     /\ thr' = [thr EXCEPT ![t].pc = "stop_kill"]
                     /\ UNCHANGED process
                ELSE /\ logs' = DequeAppend(l1, LogEntry(<<"Process confirmed not running">>, "info"))
                     /\ is_running' = FALSE
                     /\ process' = 0
                     /\ thr' = [thr EXCEPT ![t].pc = "stop_forget"]
       ELSE /\ thr' = [thr EXCEPT ![t].pc = "stop_kill"]
            /\ UNCHANGED <<logs, is_running, process>>
    /\ UNCHANGED <<process_pid, start_time, restart_attempts, last_crash_time, history,
                   history_file, os, fixedVars>>

\* stop_fuxkcomfy, lines 431-432 (and 437-438)
StopForget(t) ==
    /\ thr[t].pc = "stop_forget"
    /\ process_pid' = 0
    /\ thr' = StopReturns(t, Result(FALSE, <<"Process not running">>, 0))
    /\ UNCHANGED <<is_running, process, start_time, restart_attempts, last_crash_time,
                   history, history_file, os, logs, fixedVars>>

\* the two entries every stop logs before it touches the process
StopLogs(t) ==
    << LogEntry(<<"Stopping process...">>, "warning"),
       LogEntry(<<"Process PID: ", ToString(thr[t].pid)>>, "info") >>

\* taskkill /T /PID pid, with /F when forced: the tree of a process that exists
WinTaskkill(o, k, forced) ==
    IF ~o[k].alive THEN o
    ELSE IF forced THEN KillParent(KillKids(o, k, o[k].kids), k)
    ELSE TerminateParent(TerminateKids(o, k, o[k].kids), k)

\* stop_fuxkcomfy, lines 440-469 and 485-487 on Windows: taskkill.  failed:
\* taskkill times out.
StopKillWindows(t, failed) ==
    /\ thr[t].pc = "stop_kill"
    /\ platform = "Windows"
    /\ LET k == thr[t].pid
           l1 == AppendAll(logs, StopLogs(t) \o
                     << LogEntry(<<"Using Windows taskkill method...">>, "info") >>)
       IN  IF failed
           THEN /\ logs' = DequeAppend(l1,
                      LogEntry(<<"taskkill timeout, trying alternative method...">>, "warning"))
                /\ thr' = [thr EXCEPT ![t].pc = "stop_except"]
                /\ UNCHANGED os
           ELSE /\ os' = WinTaskkill(os, k, thr[t].force)
                /\ IF thr[t].force
                   THEN /\ logs' = AppendAll(l1,
                              << LogEntry(<<"taskkill output: ", "<stdout>">>, "info"),
                                 LogEntry(<<"Process force killed with taskkill /F">>, "warning") >>)
                        \* self.process.wait(timeout=2) raises when process is None
                        /\ thr' = [thr EXCEPT ![t].pc =
                                      IF process = 0 THEN "stop_except" ELSE "stop_finish"]
                   ELSE /\ logs' = DequeAppend(l1,
                              LogEntry(<<"taskkill output: ", "<stdout>">>, "info"))
                        /\ thr' = [thr EXCEPT ![t].pc = "stop_wincheck"]
    /\ UNCHANGED <<is_running, process, process_pid, start_time, restart_attempts,
                   last_crash_time, history, history_file, fixedVars>>

\* stop_fuxkcomfy, lines 471-483 on Windows: after the sleep, a parent that still
\* runs is force killed with its tree
StopWinCheck(t) ==
    /\ thr[t].pc = "stop_wincheck"
    /\ LET k == thr[t].pid
       IN  IF os[k].alive
           THEN /\ os' = WinTaskkill(os, k, TRUE)
                /\ logs' = AppendAll(logs,
                      << LogEntry(<<"Process still running, force killing...">>, "warning"),
                         LogEntry(<<"Process force killed">>, "warning") >>)
           ELSE /\ logs' = DequeAppend(logs,
                      LogEntry(<<"Process terminated successfully">>, "success"))
                /\ UNCHANGED os
    /\ thr' = [thr EXCEPT ![t].pc = IF process = 0 THEN "stop_except" ELSE "stop_finish"]
    /\ UNCHANGED <<is_running, process, process_pid, start_time, restart_attempts,
                   last_crash_time, history, history_file, fixedVars>>

RECURSIVE KilledLogs(_)
\* one "Killed child process" entry per descendant
KilledLogs(ds) ==
    IF ds = {} THEN << >>
    ELSE LET d == CHOOSE x \in ds : TRUE
         IN  << LogEntry(<<"Killed child process ", d>>, "info") >> \o KilledLogs(ds \ {d})

\* stop_fuxkcomfy, lines 493-514 elsewhere: psutil.  denied: a psutil call on
\* the parent raises AccessDenied.
StopKillPsutil(t, denied) ==
    /\ thr[t].pc = "stop_kill"
    /\ platform # "Windows"
    /\ LET k == thr[t].pid
           l1 == AppendAll(logs, StopLogs(t))
       IN  IF ~os[k].alive
           THEN \* psutil.Process(pid) raises NoSuchProcess
                /\ logs' = DequeAppend(l1, LogEntry(<<"Process already terminated">>, "info"))
                /\ thr' = [thr EXCEPT ![t].pc = "stop_finish"]
                /\ UNCHANGED os
           ELSE IF denied
           THEN /\ logs' = l1
                /\ thr' = [thr EXCEPT ![t].pc = "stop_except"]
                /\ UNCHANGED os
           ELSE IF thr[t].force
           THEN /\ os' = KillParent(KillKids(os, k, os[k].kids), k)
                /\ logs' = AppendAll(l1,
                      << LogEntry(<<"Force killing process ", ToString(k), " and all children...">>,
                                  "warning") >>
                      \o KilledLogs(os[k].kids)
                      \o << LogEntry(<<"Process force killed">>, "warning") >>)
                /\ thr' = [thr EXCEPT ![t].pc = "stop_finish"]
           ELSE /\ os' = TerminateParent(TerminateKids(os, k, os[k].kids), k)
                /\ logs' = DequeAppend(l1,
                      LogEntry(<<"Terminating process ", ToString(k), " and all children...">>, "info"))
                /\ thr' = [thr EXCEPT ![t].pc = "stop_wait", ![t].kids = os[k].kids]
    /\ UNCHANGED <<is_running, process, process_pid, start_time, restart_attempts,
                   last_crash_time, history, history_file, fixedVars>>

\* a faulty escalation: after the timeout only the parent is killed
StopWait_ParentOnly(t) ==
    /\ thr[t].pc = "stop_wait"
    /\ LET k == thr[t].pid
       IN  IF ~os[k].alive
           THEN /\ logs' = DequeAppend(logs, LogEntry(<<"Process terminated gracefully">>, "success"))
                /\ UNCHANGED os
           ELSE /\ os' = KillParent(os, k)
                /\ logs' = AppendAll(logs,
                      << LogEntry(<<"Graceful shutdown timeout, force killing...">>, "warning"),
                         LogEntry(<<"Process force killed">>, "warning") >>)
    /\ thr' = [thr EXCEPT ![t].pc = "stop_finish"]
    /\ UNCHANGED <<is_running, process, process_pid, start_time, restart_attempts,
                   last_crash_time, history, history_file, fixedVars>>

\* stop_fuxkcomfy, lines 516-529: parent.wait(timeout=5), and on a timeout the
\* kill of the recorded descendants that still run and of the parent
StopWait(t) ==
    /\ thr[t].pc = "stop_wait"
    /\ LET k == thr[t].pid
       IN  IF ~os[k].alive
           THEN /\ logs' = DequeAppend(logs, LogEntry(<<"Process terminated gracefully">>, "success"))
                /\ UNCHANGED os
           ELSE /\ os' = KillParent(KillKids(os, k, thr[t].kids), k)
                /\ logs' = AppendAll(logs,
                      << LogEntry(<<"Graceful shutdown timeout, force killing...">>, "warning"),
                         LogEntry(<<"Process force killed">>, "warning") >>)
    /\ thr' = [thr EXCEPT ![t].pc = "stop_finish"]
    /\ UNCHANGED <<is_running, process, process_pid, start_time, restart_attempts,
                   last_crash_time, history, history_file, fixedVars>>

\* stop_fuxkcomfy, lines 533-537
StopFinish(t) ==
    /\ thr[t].pc = "stop_finish"
    /\ is_running' = FALSE
    /\ process_pid' = 0
    /\ start_time' = 0
    /\ thr' = StopReturns(t, Result(TRUE, <<"Process stopped">>, 0))
    /\ UNCHANGED <<process, restart_attempts, last_crash_time, history, history_file, os,
                   logs, fixedVars>>

\* stop_fuxkcomfy, lines 539-555: the except clause.  killed: the direct kill
\* through the handle works.
StopExcept(t, killed) ==
    /\ thr[t].pc = "stop_except"
    /\ LET l1 == AppendAll(logs,
                    << LogEntry(<<"Error stopping process: ", "<error>">>, "error"),
                       LogEntry(<<"Attempting final cleanup with psutil...">>, "warning") >>)
       IN  IF process # 0 /\ os[process].alive
           THEN IF killed
                THEN /\ os' = KillParent(os, process)
                     /\ logs' = DequeAppend(l1,
                           LogEntry(<<"Process killed via subprocess.kill()">>, "warning"))
                ELSE /\ logs' = DequeAppend(l1,
                           LogEntry(<<"Final cleanup failed: ", "<error>">>, "error"))
                     /\ UNCHANGED os
           ELSE /\ logs' = l1
                /\ UNCHANGED os
    /\ is_running' = FALSE
    /\ process_pid' = 0
    /\ start_time' = 0
    /\ thr' = StopReturns(t, Result(FALSE, <<"Stop failed: ", "<error>">>, 0))
    /\ UNCHANGED <<process, restart_attempts, last_crash_time, history, history_file,
                   fixedVars>>

\* restart_fuxkcomfy, lines 558-559: log, then stop_fuxkcomfy()
RestartEntry(t) ==
    /\ thr[t].pc = "restart"
    /\ logs' = DequeAppend(logs, LogEntry(<<"Restarting process...">>, "info"))
    /\ thr' = [thr EXCEPT ![t].pc = "stop", ![t].force = FALSE]
    /\ UNCHANGED <<is_running, process, process_pid, start_time, restart_attempts,
                   last_crash_time, history, history_file, os, fixedVars>>

\* the child with pid k ends by itself with an exit code; its descendants end
\* with it or live on
ChildExits(k, code, orphans) ==
    /\ Exists(k)
    /\ os' = [os EXCEPT ![k].alive = FALSE, ![k].code = PyInt(code),
                        ![k].kids = IF orphans THEN @ ELSE {}]
    /\ UNCHANGED <<is_running, process, process_pid, start_time, restart_attempts,
                   last_crash_time, history, history_file, thr, logs, fixedVars>>

\* the except clause of read_output, lines 593-594: the flag is left alone
ReaderFailed(r) ==
    /\ logs' = DequeAppend(logs, LogEntry(<<"Output reader error: ", "<error>">>, "error"))
    /\ thr' = [thr EXCEPT ![r].pc = "done"]

\* read_output, lines 567 and 593-594: reading the stream raises (the pipe is
\* closed under the reader, an I/O error) and the except clause runs
ReaderError(r) ==
    /\ thr[r].pc = "read"
    /\ ReaderFailed(r)
    /\ UNCHANGED <<is_running, process, process_pid, start_time, restart_attempts,
                   last_crash_time, history, history_file, os, fixedVars>>

\* read_output, lines 567-580: one line is read, trimmed, classified, logged
ReaderLine(r) ==
    /\ thr[r].pc = "read"
    /\ os[thr[r].stream].out # << >>
    /\ LET raw == Head(os[thr[r].stream].out)
           line == strip(raw)
       IN  logs' = IF raw # << >> THEN DequeAppend(logs, LogEntry(line, level_of(line)))
                   ELSE logs
    /\ os' = [os EXCEPT ![thr[r].stream].out = Tail(@)]
    /\ UNCHANGED <<is_running, process, process_pid, start_time, restart_attempts,
                   last_crash_time, history, history_file, thr, fixedVars>>

\* read_output, line 567: readline returns '' once the child is gone and its
\* output is drained
ReaderEOF(r) ==
    /\ thr[r].pc = "read"
    /\ os[thr[r].stream].out = << >>
    /\ ~os[thr[r].stream].alive
    /\ thr' = [thr EXCEPT ![r].pc = "join"]
    /\ UNCHANGED <<is_running, process, process_pid, start_time, restart_attempts,
                   last_crash_time, history, history_file, os, logs, fixedVars>>

\* read_output, line 582: self.process.wait() returns once the process stored
\* now has ended; it raises when process is None
ReaderWait(r) ==
    /\ thr[r].pc = "join"
    /\ IF process = 0
       THEN ReaderFailed(r)
       ELSE /\ ~os[process].alive
            /\ thr' = [thr EXCEPT ![r].pc = "wait"]
            /\ UNCHANGED logs
    /\ UNCHANGED <<is_running, process, process_pid, start_time, restart_attempts,
                   last_crash_time, history, history_file, os, fixedVars>>

\* a faulty exit code: every exit reads as a normal one
returncode_AlwaysZero(k) == PyInt(0)

\* Popen.returncode: None while the process runs
returncode(k) == IF os[k].alive THEN None ELSE os[k].code

\* read_output, lines 583-591, after the wait has returned: the exit code of the
\* process stored now is read and the exit recorded.  The crash time is the
\* index of the reader that records it.
ReaderExit(r) ==
    /\ thr[r].pc = "wait"
    /\ IF process = 0
       THEN /\ ReaderFailed(r)
            /\ UNCHANGED <<is_running, process_pid, last_crash_time>>
       ELSE LET exit_code == returncode(process)
            IN  /\ is_running' = FALSE
                /\ process_pid' = 0
                /\ IF exit_code = PyInt(0)
                   THEN /\ logs' = DequeAppend(logs,
                              LogEntry(<<"Process exited normally (code: ">> \o str(exit_code)
                                       \o <<")">>, "success"))
                        /\ UNCHANGED last_crash_time
                   ELSE /\ logs' = DequeAppend(logs,
                              LogEntry(<<"Process exited with error code: ">> \o str(exit_code),
                                       "error"))
                        /\ last_crash_time' = r[2]
                /\ thr' = [thr EXCEPT ![r].pc = "done"]
    /\ UNCHANGED <<process, start_time, restart_attempts, history, history_file, os,
                   fixedVars>>

\* monitor_health, line 597: the loop test
MonWhile(m) ==
    /\ thr[m].pc = "while"
    /\ thr' = [thr EXCEPT ![m].pc = IF is_running THEN "poll" ELSE "done"]
    /\ UNCHANGED <<is_running, process, process_pid, start_time, restart_attempts,
                   last_crash_time, history, history_file, os, logs, fixedVars>>

\* a faulty monitor: after giving up it goes back to its loop test
MonPoll_PollsOn(m) ==
    /\ thr[m].pc = "poll"
    /\ IF process # 0 /\ ~os[process].alive
       THEN IF Truthy(get_config_value(config, "auto_restart", PyBool(FALSE)))
            THEN LET max_attempts == get_config_value(config, "max_restart_attempts", PyInt(3))
                 IN  IF restart_attempts < max_attempts.v
                     THEN /\ thr' = [thr EXCEPT ![m].pc = "count"]
                          /\ UNCHANGED <<logs, is_running, restart_attempts>>
                     ELSE /\ logs' = DequeAppend(logs,
                                LogEntry(<<"Max restart attempts (", ToString(max_attempts.v),
                                           ") reached, giving up">>, "error"))
                          /\ is_running' = FALSE
                          /\ thr' = [thr EXCEPT ![m].pc = "while", ![m].op = "gave_up"]
                          /\ UNCHANGED restart_attempts
            ELSE /\ thr' = [thr EXCEPT ![m].pc = "done"]
                 /\ UNCHANGED <<logs, is_running, restart_attempts>>
       ELSE /\ thr' = [thr EXCEPT ![m].pc = "while"]
            /\ UNCHANGED <<logs, is_running, restart_attempts>>
    /\ UNCHANGED <<process, process_pid, start_time, last_crash_time, history,
                   history_file, os, fixedVars>>

\* monitor_health, lines 598-602 and 607-610: after the sleep, a child that has
\* ended is to be restarted or is given up; the loop ends either way
MonPoll(m) ==
    /\ thr[m].pc = "poll"
    /\ IF process # 0 /\ ~os[process].alive
       THEN IF Truthy(get_config_value(config, "auto_restart", PyBool(FALSE)))
            THEN LET max_attempts == get_config_value(config, "max_restart_attempts", PyInt(3))
                 IN  IF restart_attempts < max_attempts.v
                     THEN /\ thr' = [thr EXCEPT ![m].pc = "count"]
                          /\ UNCHANGED <<logs, is_running, restart_attempts>>
                     ELSE /\ logs' = DequeAppend(logs,
                                LogEntry(<<"Max restart attempts (", ToString(max_attempts.v),
                                           ") reached, giving up">>, "error"))
                          /\ is_running' = FALSE
                          /\ thr' = [thr EXCEPT ![m].pc = "done", ![m].op = "gave_up"]
                          /\ UNCHANGED restart_attempts
            ELSE /\ thr' = [thr EXCEPT ![m].pc = "done"]
                 /\ UNCHANGED <<logs, is_running, restart_attempts>>
       ELSE /\ thr' = [thr EXCEPT ![m].pc = "while"]
            /\ UNCHANGED <<logs, is_running, restart_attempts>>
    /\ UNCHANGED <<process, process_pid, start_time, last_crash_time, history,
                   history_file, os, fixedVars>>

\* monitor_health, lines 603-606: the counter tested at line 602 is incremented,
\* the attempt logged, and after the sleep start_fuxkcomfy called
MonCount(m) ==
    /\ thr[m].pc = "count"
    /\ LET max_attempts == get_config_value(config, "max_restart_attempts", PyInt(3))
       IN  /\ restart_attempts' = restart_attempts + 1
           /\ logs' = DequeAppend(logs,
                 LogEntry(<<"Auto-restart attempt ", ToString(restart_attempts + 1),
                            "/", ToString(max_attempts.v)>>, "warning"))
    /\ thr' = [thr EXCEPT ![m].pc = "start", ![m].op = "auto_restart"]
    /\ UNCHANGED <<is_running, process, process_pid, start_time, last_crash_time, history,
                   history_file, os, fixedVars>>

Readers == {<<"rdr", k>> : k \in 1..MaxChildren}
Monitors == {<<"mon", k>> : k \in 1..MaxChildren}
Starters == Clients \cup Monitors

Next ==
    \/ \E c \in Clients, force \in BOOLEAN : Request(c, "start", FALSE) \/ Request(c, "stop", force)
    \/ \E c \in Clients : Request(c, "restart", FALSE)
    \/ \E t \in Starters : StartCheck(t)
    \/ \E t \in Starters, spawned \in BOOLEAN, kind \in ChildKinds, line \in SampleLines :
          StartSpawn(t, spawned, kind, line)
    \/ \E t \in Starters : StartMark(t)
    \/ \E t \in Starters : StartPid(t)
    \/ \E c \in Clients : StopEntry(c)
    \/ \E c \in Clients : StopCheck(c)
    \/ \E c \in Clients : StopForget(c)
    \/ \E c \in Clients, failed \in BOOLEAN : StopKillWindows(c, failed)
    \/ \E c \in Clients : StopWinCheck(c)
    \/ \E c \in Clients, denied \in BOOLEAN : StopKillPsutil(c, denied)
    \/ \E c \in Clients : StopWait(c)
    \/ \E c \in Clients : StopFinish(c)
    \/ \E c \in Clients, killed \in BOOLEAN : StopExcept(c, killed)
    \/ \E c \in Clients : RestartEntry(c)
    \/ \E k \in 1..Len(os), code \in ExitCodes, orphans \in BOOLEAN : ChildExits(k, code, orphans)
    \/ \E r \in Readers : ReaderError(r)
    \/ \E r \in Readers : ReaderLine(r)
    \/ \E r \in Readers : ReaderEOF(r)
    \/ \E r \in Readers : ReaderWait(r)
    \/ \E r \in Readers : ReaderExit(r)
    \/ \E m \in Monitors : MonWhile(m)
    \/ \E m \in Monitors : MonPoll(m)

Spec == Init /\ [][Next]_vars

\* the launcher left to itself after start requests; the children have no
\* descendants, which only a stop would tell apart
NextStarts ==
    \/ \E c \in Clients : Request(c, "start", FALSE)
    \/ \E t \in Starters : StartCheck(t)
    \/ \E t \in Starters, spawned \in BOOLEAN, line \in SampleLines :
          StartSpawn(t, spawned, [obeys |-> TRUE, kids |-> {}], line)
    \/ \E t \in Starters : StartMark(t)
    \/ \E t \in Starters : StartPid(t)
    \/ \E k \in 1..Len(os), code \in ExitCodes : ChildExits(k, code, FALSE)
    \/ \E r \in Readers : ReaderError(r)
    \/ \E r \in Readers : ReaderLine(r)
    \/ \E r \in Readers : ReaderEOF(r)
    \/ \E r \in Readers : ReaderWait(r)
    \/ \E r \in Readers : ReaderExit(r)
    \/ \E m \in Monitors : MonWhile(m)
    \/ \E m \in Monitors : MonPoll(m)

\* the same with auto_restart on: a monitor counts its restart attempt
NextAuto ==
    \/ NextStarts
    \/ \E m \in Monitors : MonCount(m)

SpecAuto == InitAuto /\ [][NextAuto]_vars

-----------------------------------------------------------------------------
(* Start and stop requests with auto_restart on: SpecStopAuto *)

\* auto_restart on with the default max_restart_attempts, on Linux
InitStopAuto ==
    InitRun({c \in AutoConfigs : c["max_restart_attempts"] = PyInt(3)}, {"Linux"})

\* the children have no descendants and end only when they are stopped; with two
\* requests no stop finds the state to reconcile (lines 420-438 past the test)
NextStopAuto ==
    \/ \E c \in Clients, force \in BOOLEAN : Request(c, "start", FALSE) \/ Request(c, "stop", force)
    \/ \E t \in Starters : StartCheck(t)
    \/ \E t \in Starters, spawned \in BOOLEAN, line \in SampleLines :
          StartSpawn(t, spawned, [obeys |-> TRUE, kids |-> {}], line)
    \/ \E t \in Starters : StartMark(t)
    \/ \E t \in Starters : StartPid(t)
    \/ \E c \in Clients : StopEntry(c)
    \/ \E c \in Clients : StopCheck(c)
    \/ \E c \in Clients, denied \in BOOLEAN : StopKillPsutil(c, denied)
    \/ \E c \in Clients : StopWait(c)
    \/ \E c \in Clients : StopFinish(c)
    \/ \E c \in Clients, killed \in BOOLEAN : StopExcept(c, killed)
    \/ \E r \in Readers : ReaderLine(r)
    \/ \E r \in Readers : ReaderEOF(r)
    \/ \E r \in Readers : ReaderWait(r)
    \/ \E r \in Readers : ReaderExit(r)
    \/ \E m \in Monitors : MonWhile(m)
    \/ \E m \in Monitors : MonPoll(m)
    \/ \E m \in Monitors : MonCount(m)

SpecStopAuto == InitStopAuto /\ [][NextStopAuto]_vars

-----------------------------------------------------------------------------
(* A stop after an earlier stop or after the child's own end: SpecReconcile *)

\* start and stop requests, three in a row, on Linux with the defaults; the
\* children have no descendants
NextReconcile ==
    \/ \E c \in Clients : RequestWithin(c, "start", FALSE, MaxReconcileRequests)
    \/ \E c \in Clients : RequestWithin(c, "stop", FALSE, MaxReconcileRequests)
    \/ \E t \in Starters : StartCheck(t)
    \/ \E t \in Starters, spawned \in BOOLEAN, obeys \in BOOLEAN, line \in SampleLines :
          StartSpawn(t, spawned, [obeys |-> obeys, kids |-> {}], line)
    \/ \E t \in Starters : StartMark(t)
    \/ \E t \in Starters : StartPid(t)
    \/ \E c \in Clients : StopEntry(c)
    \/ \E c \in Clients : StopCheck(c)
    \/ \E c \in Clients : StopForget(c)
    \/ \E c \in Clients, denied \in BOOLEAN : StopKillPsutil(c, denied)
    \/ \E c \in Clients : StopWait(c)
    \/ \E c \in Clients : StopFinish(c)
    \/ \E c \in Clients, killed \in BOOLEAN : StopExcept(c, killed)
    \/ \E k \in 1..Len(os), code \in ExitCodes : ChildExits(k, code, FALSE)
    \/ \E r \in Readers : ReaderLine(r)
    \/ \E r \in Readers : ReaderEOF(r)
    \/ \E r \in Readers : ReaderWait(r)
    \/ \E r \in Readers : ReaderExit(r)
    \/ \E m \in Monitors : MonWhile(m)
    \/ \E m \in Monitors : MonPoll(m)

SpecReconcile == InitRun({default_config}, {"Linux"}) /\ [][NextReconcile]_vars

-----------------------------------------------------------------------------
(* The configuration updated while a child runs: SpecUpdate *)

\* the keys a request to /api/config changes here: a flag and a value the
\* builder reads, a key only the UI reads, and a key unknown to both
RunUpdateKeys == {"lowvram", "port", "theme", "custom_key"}

\* the launcher constructed over one of the persisted documents
InitUpdate ==
    /\ config_file \in PersistedDocs
    /\ config = load(config_file)
    /\ logs = << >>
    /\ appended = << >>
    /\ ret = [op |-> "none", updates |-> 0]
    /\ is_running = FALSE
    /\ process = 0
    /\ process_pid = 0
    /\ start_time = 0
    /\ restart_attempts = 0
    /\ last_crash_time = 0
    /\ history_file = << >>
    /\ history = load_history(history_file)
    /\ platform = "Linux"
    /\ os = << >>
    /\ thr = [t \in ThreadIds |-> IF t \in Clients THEN [NoThread EXCEPT !.pc = "idle"]
                                                    ELSE NoThread]
    /\ PresetsLoaded({NoFile})
    /\ query = NoQuery

\* start requests, the child's own end, and a request to /api/config at any time
NextUpdate ==
    \/ \E c \in Clients : Request(c, "start", FALSE)
    \/ \E t \in Starters : StartCheck(t)
    \/ \E t \in Starters, spawned \in BOOLEAN, line \in SampleLines :
          StartSpawn(t, spawned, [obeys |-> TRUE, kids |-> {}], line)
    \/ \E t \in Starters : StartMark(t)
    \/ \E t \in Starters : StartPid(t)
    \/ \E k \in 1..Len(os), code \in ExitCodes : ChildExits(k, code, FALSE)
    \/ \E r \in Readers : ReaderLine(r)
    \/ \E r \in Readers : ReaderEOF(r)
    \/ \E r \in Readers : ReaderWait(r)
    \/ \E r \in Readers : ReaderExit(r)
    \/ \E m \in Monitors : MonWhile(m)
    \/ \E m \in Monitors : MonPoll(m)
    \/ \E k \in RunUpdateKeys : \E v \in UpdateValues(k) : \E saved \in BOOLEAN :
          UpdateConfig(k, v, saved)

SpecUpdate == InitUpdate /\ [][NextUpdate]_vars

-----------------------------------------------------------------------------
(* A stop after the monitor has given up: SpecGiveUp *)

\* auto_restart on, with no restart attempt allowed or one, on Linux
InitGiveUp ==
    InitRun({Merge(default_config,
                   [k \in {"auto_restart", "max_restart_attempts"} |->
                       IF k = "auto_restart" THEN PyBool(TRUE) ELSE PyInt(n)]) : n \in {0, 1}},
            {"Linux"})

\* start and stop requests; the children have no descendants and end on their
\* own or when they are stopped
NextGiveUp ==
    \/ NextStopAuto
    \/ \E c \in Clients : StopForget(c)
    \/ \E k \in 1..Len(os), code \in ExitCodes : ChildExits(k, code, FALSE)

SpecGiveUp == InitGiveUp /\ [][NextGiveUp]_vars

-----------------------------------------------------------------------------
(* The launcher constructed over the history of earlier runs *)

\* the entry a start of an earlier run left in the document
StoredEntry(i) == [command |-> <<"python", "main.py", ToString(i)>>, config |-> default_config]

\* the documents earlier runs left: one entry short of full, and full
StoredHistories ==
    {[i \in 1..n |-> StoredEntry(i)] : n \in {HistoryKeep - 1, HistoryKeep}}

InitHist == InitLoaded({default_config}, {"Linux"}, StoredHistories)

SpecHist == InitHist /\ [][NextStarts]_vars

-----------------------------------------------------------------------------
(* The launcher under fair scheduling *)

\* the default configuration (auto_restart off); every thread of the supervisor
\* that can take its next step eventually takes it.  Nothing obliges a client
\* to send a request, a child to exit, or a read of the child's output to fail.
InitFair == InitRun({default_config}, {"Linux"})

ThreadStep(t) ==
    \/ StartCheck(t)
    \/ \E spawned \in BOOLEAN, line \in SampleLines :
          StartSpawn(t, spawned, [obeys |-> TRUE, kids |-> {}], line)
    \/ StartMark(t)
    \/ StartPid(t)
    \/ ReaderLine(t)
    \/ ReaderEOF(t)
    \/ ReaderWait(t)
    \/ ReaderExit(t)
    \/ MonWhile(t)
    \/ MonPoll(t)

\* the threads that come to exist when no two starts overlap
FairThreads ==
    Clients \cup {<<"rdr", k>> : k \in 1..MaxStarts} \cup {<<"mon", k>> : k \in 1..MaxStarts}

SpecFair == InitFair /\ [][NextStarts]_vars /\ \A t \in FairThreads : WF_vars(ThreadStep(t))

-----------------------------------------------------------------------------
(* One start request with auto_restart on, under fair scheduling: SpecRestart *)

\* one start request; every spawn succeeds; the children end on their own
NextRestart ==
    \/ \E c \in Clients : thr[c].served = 0 /\ Request(c, "start", FALSE)
    \/ \E t \in Starters : StartCheck(t)
    \/ \E t \in Starters, line \in SampleLines :
          StartSpawn(t, TRUE, [obeys |-> TRUE, kids |-> {}], line)
    \/ \E t \in Starters : StartMark(t)
    \/ \E t \in Starters : StartPid(t)
    \/ \E k \in 1..Len(os), code \in ExitCodes : ChildExits(k, code, FALSE)
    \/ \E r \in Readers : ReaderLine(r)
    \/ \E r \in Readers : ReaderEOF(r)
    \/ \E r \in Readers : ReaderWait(r)
    \/ \E r \in Readers : ReaderExit(r)
    \/ \E m \in Monitors : MonWhile(m)
    \/ \E m \in Monitors : MonPoll(m)
    \/ \E m \in Monitors : MonCount(m)

\* the next step of thread t
RestartStep(t) ==
    \/ StartCheck(t)
    \/ \E line \in SampleLines : StartSpawn(t, TRUE, [obeys |-> TRUE, kids |-> {}], line)
    \/ StartMark(t)
    \/ StartPid(t)
    \/ ReaderLine(t)
    \/ ReaderEOF(t)
    \/ ReaderWait(t)
    \/ ReaderExit(t)
    \/ MonWhile(t)
    \/ MonPoll(t)
    \/ MonCount(t)

\* every thread that can take its next step eventually takes it; nothing obliges
\* the client to send its request or a child to exit
SpecRestart ==
    InitStopAuto /\ [][NextRestart]_vars /\ \A t \in FairThreads : WF_vars(RestartStep(t))

-----------------------------------------------------------------------------
(* Claims about build_command, checked under SpecCmd *)

\* the value an option has in a configuration: its entry, or the documented
\* default of ConfigManager.default_config when the key is missing
OptionValue(c, k) == IF k \in DOMAIN c THEN c[k] ELSE default_config[k]

\* the command-line token each boolean option of the configuration stands for
ExpectedToken ==
    [k \in FlagKeys |->
        CASE k = "auto_launch" -> "--auto-launch"
          [] k = "gpu_opt" -> "--disable-gpu-optimization"
          [] k = "cpu_mode" -> "--cpu"
          [] k = "lowvram" -> "--lowvram"
          [] k = "highvram" -> "--highvram"
          [] k = "normalvram" -> "--normalvram"
          [] k = "novram" -> "--novram"
          [] k = "fp16_vae" -> "--fp16-vae"
          [] k = "fp32_vae" -> "--fp32-vae"
          [] k = "bf16_unet" -> "--bf16-unet"
          [] k = "fp16_unet" -> "--fp16-unet"
          [] k = "fp8_e4m3fn_unet" -> "--fp8_e4m3fn-unet"
          [] k = "fp8_e5m2_unet" -> "--fp8_e5m2-unet"
          [] k = "disable_smart_memory" -> "--disable-smart-memory"
          [] k = "deterministic" -> "--deterministic"
          [] k = "dont_upcast_attention" -> "--dont-upcast-attention"
          [] k = "force_upcast_attention" -> "--force-upcast-attention"
          [] k = "disable_xformers" -> "--disable-xformers"
          [] k = "use_pytorch_cross_attention" -> "--use-pytorch-cross-attention"
          [] k = "use_split_cross_attention" -> "--use-split-cross-attention"
          [] k = "use_quad_cross_attention" -> "--use-quad-cross-attention"
          [] k = "use_sage_attention" -> "--use-sage-attention"
          [] k = "use_flash_attention" -> "--use-flash-attention"
          [] k = "directml" -> "--directml"
          [] k = "gpu_only" -> "--gpu-only"
          [] k = "cpu_vae" -> "--cpu-vae"
          [] k = "async_offload" -> "--async-offload"
          [] k = "disable_mmap" -> "--disable-mmap"
          [] k = "force_channels_last" -> "--force-channels-last"]

\* build_command has just returned an argv for the current configuration
Built == ret.op = "build_command" /\ ~ret.raised

\* the token of flag k is in the argv exactly when the flag asks for it
TokenMatchesFlag(k) ==
    (Lit(ExpectedToken[k]) \in Range(ret.cmd))
        <=> (IF k = "gpu_opt" THEN OptionValue(config, k) = PyBool(FALSE)
                              ELSE OptionValue(config, k) = PyBool(TRUE))

\* C9: for every boolean feature flag, use_pytorch_cross_attention included, the
\* flag's token is in the argv of build_command if and only if the option is true;
\* the token --disable-gpu-optimization is in it if and only if gpu_opt is false.
C9_EveryFlagHasItsToken == Built => \A k \in FlagKeys : TokenMatchesFlag(k)

\* the configurations C10 speaks of, as it words them: every boolean option false,
\* the value-bearing options and the extra arguments empty, no port and no listen
NoOptionSet(c) ==
    /\ \A k \in ValueKeys \ {"port", "listen"} : k \in DOMAIN c => ~Truthy(c[k])
    /\ "port" \notin DOMAIN c
    /\ "listen" \notin DOMAIN c

AllBooleansFalse(c) == \A k \in FlagKeys : k \in DOMAIN c /\ c[k] = PyBool(FALSE)

AllBooleansFalseButGpuOpt(c) ==
    /\ \A k \in FlagKeys \ {"gpu_opt"} : k \in DOMAIN c /\ c[k] = PyBool(FALSE)
    /\ "gpu_opt" \in DOMAIN c /\ c["gpu_opt"] = PyBool(TRUE)

\* interpreter, entry script, platform flag, default port and listen address
BaseInvocation ==
    << Lit("/usr/bin/python3"), Lit("-s"), Lit("main.py"), Lit("--windows-standalone-build"),
       Lit("--port"), Lit("8188"), Lit("--listen"), Lit("0.0.0.0") >>

\* C10 as stated: with all boolean options false, the value-bearing options empty
\* and port and listen absent, build_command returns exactly the base invocation
\* followed by --port 8188 and --listen 0.0.0.0.
C10_AllFalseGivesBase ==
    (ret.op = "build_command" /\ AllBooleansFalse(config) /\ NoOptionSet(config))
        => (~ret.raised /\ ret.cmd = BaseInvocation)

\* C10 amended: with all boolean options false except the inverted gpu_opt, which
\* is true, the value-bearing options empty and port and listen absent,
\* build_command returns exactly the base invocation followed by --port 8188 and
\* --listen 0.0.0.0.
C10_NoFlagGivesBase ==
    (ret.op = "build_command" /\ AllBooleansFalseButGpuOpt(config) /\ NoOptionSet(config))
        => (~ret.raised /\ ret.cmd = BaseInvocation)

\* build_command has run on a configuration with no flag enabled that also
\* carries keys the builder does not know
C10_Witness ==
    /\ ret.op = "build_command"
    /\ AllBooleansFalseButGpuOpt(config) /\ NoOptionSet(config)
    /\ "custom_key" \in DOMAIN config

\* C23: build_command fails for no configuration, malformed option values
\* included, and every token of the argv it returns is a string.
C23_BuildNeverFails ==
    ret.op = "build_command"
        => /\ ~ret.raised
           /\ \A i \in 1..Len(ret.cmd) : ret.cmd[i].t = "str"

\* where the token a is in the argv cmd: its first position, 0 when absent
PositionOf(cmd, a) ==
    IF \E i \in 1..Len(cmd) : cmd[i] = a
    THEN CHOOSE i \in 1..Len(cmd) : cmd[i] = a /\ \A j \in 1..(i - 1) : cmd[j] # a
    ELSE 0

HasOption(cmd, token, v) ==
    \E i \in 1..(Len(cmd) - 1) : cmd[i] = Lit(token) /\ cmd[i + 1] = v

\* the tokens the extra arguments of configuration c split into
ExtraTokens(c) ==
    LET extra_args == OptionValue(c, "extra_args")
    IN  IF Truthy(extra_args) THEN split(extra_args) ELSE << >>

\* C35: in the argv build_command returns, ahead of the extra arguments,
\* --reserve-vram and --preview-size stand with their value exactly when the
\* configured value is non-empty, and --preview-method with its value exactly
\* when the configured value is non-empty and not "auto"; the tokens the extra
\* arguments split into on whitespace are the last elements of the argv, as
\* they are.
C35_ValueOptionsAndExtraArgs ==
    Built =>
        LET tail == ExtraTokens(config)
            n == Len(ret.cmd) - Len(tail)
            head == SubSeq(ret.cmd, 1, n)
            reserve_vram == OptionValue(config, "reserve_vram")
            preview_method == OptionValue(config, "preview_method")
            preview_size == OptionValue(config, "preview_size")
        IN  /\ n >= 0
            /\ SubSeq(ret.cmd, n + 1, Len(ret.cmd)) = tail
            /\ \A i \in 1..Len(tail) :
                  /\ tail[i].v # << >>
                  /\ \A j \in 1..Len(tail[i].v) : tail[i].v[j] \notin Whitespace
            /\ Truthy(reserve_vram) <=> Lit("--reserve-vram") \in Range(head)
            /\ Truthy(reserve_vram) => HasOption(head, "--reserve-vram", reserve_vram)
            /\ Truthy(preview_size) <=> Lit("--preview-size") \in Range(head)
            /\ Truthy(preview_size) => HasOption(head, "--preview-size", preview_size)
            /\ (Truthy(preview_method) /\ preview_method # Lit("auto"))
                  <=> Lit("--preview-method") \in Range(head)
            /\ (Truthy(preview_method) /\ preview_method # Lit("auto"))
                  => HasOption(head, "--preview-method", preview_method)

\* an argv built after the extra arguments were set to two tokens between
\* blanks, tabs and a newline: it ends with the two tokens
C35_Witness ==
    /\ Built
    /\ ret.updates = 1
    /\ Len(ExtraTokens(config)) = 2
    /\ ret.cmd[Len(ret.cmd) - 1] = Lit("--fast")
    /\ ret.cmd[Len(ret.cmd)] = PyStr(<<"--x", "=1">>)

\* an argv built after the preview method was changed from "auto": it holds the
\* option with the new value
C35_WitnessMethod ==
    /\ Built
    /\ ret.updates = 1
    /\ OptionValue(config, "preview_method") = Lit("latent2rgb")
    /\ HasOption(ret.cmd, "--preview-method", Lit("latent2rgb"))

-----------------------------------------------------------------------------
(* Claims about the log buffer, checked under SpecLog *)

Min(a, b) == IF a < b THEN a ELSE b

\* the last n elements of s, in order
LastN(s, n) == SubSeq(s, Len(s) - n + 1, Len(s))

\* C5: after any sequence of appends and clears the buffer holds at most its
\* capacity of entries (2000 in the source, LogCapacity here), and once the
\* capacity is reached each append evicts exactly the oldest entry: the buffer is
\* always the most recent entries appended since the last clear, in append order.
C5_BufferIsMostRecent ==
    /\ Len(logs) <= LogCapacity
    /\ logs = LastN(appended, Min(Len(appended), LogCapacity))

\* more entries were appended than the buffer holds, so the oldest were evicted
C5_Witness == Len(appended) > LogCapacity /\ Len(logs) = LogCapacity

\* the entries of the buffer with the given severity, oldest first
OfLevel(level) == SelectSeq(logs, LAMBDA e : e.level = level)

\* the entries of the buffer that match a query, oldest first
Matching(level_filter, search) ==
    SelectSeq(logs, LAMBDA e :
        /\ (level_filter = "all" \/ e.level = level_filter)
        /\ (search = <<>> \/
              \E i \in 1..Len(e.message) : \E j \in i..Len(e.message) :
                  /\ j - i + 1 = Len(search)
                  /\ \A k \in 1..Len(search) :
                        LowerChar(e.message[i + k - 1]) = LowerChar(search[k])))

\* C6: get_logs with a severity filter other than "all", an empty search and a
\* positive limit returns only entries of exactly that severity, at most limit of
\* them: the most recent matching ones, ordered oldest to newest.
C6_SeverityFilter ==
    (ret.op = "get_logs" /\ ret.level_filter # "all" /\ ret.search = <<>> /\ ret.limit > 0)
        => LET m == OfLevel(ret.level_filter)
               r == ret.result
           IN  /\ Len(r) = Min(ret.limit, Len(m))
               /\ \A i \in 1..Len(r) :
                     /\ r[i].level = ret.level_filter
                     /\ r[i] = to_dict(m[Len(m) - Len(r) + i])

\* a severity query that had to drop the oldest of several matching entries and
\* to skip an entry of another severity
C6_Witness ==
    /\ ret.op = "get_logs" /\ ret.level_filter = "error" /\ ret.search = <<>>
    /\ ret.limit > 0
    /\ Len(OfLevel("error")) > ret.limit
    /\ \E i \in 1..Len(logs) : logs[i].level # "error"
    /\ Len(ret.result) = ret.limit

\* C7: for every integer limit >= 0, limit = 0 included, get_logs returns at most
\* limit entries, and they are the limit most recent entries that match the filters.
C7_AtMostLimit ==
    (ret.op = "get_logs" /\ ret.limit >= 0)
        => LET m == Matching(ret.level_filter, ret.search)
               r == ret.result
           IN  /\ Len(r) <= ret.limit
               /\ Len(r) = Min(ret.limit, Len(m))
               /\ \A i \in 1..Len(r) : r[i] = to_dict(m[Len(m) - Len(r) + i])

-----------------------------------------------------------------------------
(* Claims about the classification of output lines, checked under SpecLine *)

\* the line, whatever its case, contains the lower-case keyword w
HasKeyword(line, w) ==
    \E i \in 1..Len(line) :
        /\ i + Len(w) - 1 <= Len(line)
        /\ \A k \in 1..Len(w) : LowerChar(line[i + k - 1]) = w[k]

HasAny(line, ws) == \E w \in ws : HasKeyword(line, w)

ErrorWords == { <<"e", "r", "r", "o", "r">>, <<"e", "x", "c", "e", "p", "t", "i", "o", "n">>, <<"f", "a", "i", "l", "e", "d">> }
WarningWords == { <<"w", "a", "r", "n", "i", "n", "g">>, <<"w", "a", "r", "n">> }
SuccessWords == { <<"s", "u", "c", "c", "e", "s", "s">>, <<"r", "e", "a", "d", "y">>, <<"s", "t", "a", "r", "t", "e", "d">> }

\* the severity the rules of C8 give a line, the earliest rule winning
RuleLevel(line) ==
    CASE HasAny(line, ErrorWords) -> "error"
      [] ~HasAny(line, ErrorWords) /\ HasAny(line, WarningWords) -> "warning"
      [] ~HasAny(line, ErrorWords) /\ ~HasAny(line, WarningWords)
            /\ HasAny(line, SuccessWords) -> "success"
      [] OTHER -> "info"

\* C8: each output line is logged with the severity of the first matching rule,
\* case-insensitively: error for "error", "exception" or "failed"; else warning for
\* "warning" or "warn"; else success for "success", "ready" or "started"; else info.
C8_FirstRuleWins ==
    ret.op = "logged"
        => /\ Len(logs) = 1
           /\ logs[1].level = RuleLevel(ret.raw)
           /\ logs[1].message = strip(ret.raw)

\* a logged line that holds keywords of two classes in mixed case and took the
\* class of the earlier rule
C8_Witness ==
    /\ ret.op = "logged"
    /\ HasAny(ret.raw, WarningWords) /\ HasAny(ret.raw, SuccessWords)
    /\ ~Contains(ret.raw, <<"w", "a", "r", "n">>)
    /\ logs[1].level = "warning"


-----------------------------------------------------------------------------
(* Claims about the life cycle of the child, checked under Spec and SpecAuto *)

\* the newest entry of the log buffer
LastLog == logs[Len(logs)]

\* C1: a start_fuxkcomfy call made while the launcher is running returns the
\* failure "Process already running", spawns nothing, and leaves the stored
\* handle and the remembered identifier as the first start set them.
C1_SecondStartRefused ==
    [][\A t \in Starters :
          (thr[t].pc = "start" /\ is_running /\ thr'[t].pc # "start")
              => /\ thr'[t].pc = "done"
                 /\ thr'[t].res = Result(FALSE, <<"Process already running">>, 0)
                 /\ os' = os
                 /\ history' = history
                 /\ process' = process
                 /\ process_pid' = process_pid
                 /\ is_running']_vars

\* a second start request that was refused while the child of the first start
\* ran under its recorded identifier
C1_Witness ==
    \E c \in Clients :
        /\ thr[c].pc = "done" /\ thr[c].op = "start" /\ thr[c].served = 2
        /\ thr[c].res = Result(FALSE, <<"Process already running">>, 0)
        /\ is_running
        /\ process = 1 /\ process_pid = 1 /\ Len(os) = 1 /\ os[1].alive

\* the restart decisions the health monitors have taken
AutoRestarts == {m \in Monitors : thr[m].op = "auto_restart"}

\* C2: with auto_restart on and max_restart_attempts = 3, the k-th consecutive
\* unexpected exit that a health monitor answers with a restart finds the restart
\* counter reading k: 1, 2, 3 in turn (so that a fourth exit is given up).
C2_CounterCountsExits ==
    [][\A m \in Monitors :
          (/\ config["max_restart_attempts"] = PyInt(3)
           /\ \A c \in Clients : thr[c].served <= 1
           /\ thr[m].pc = "count" /\ thr'[m].pc = "start")
              => restart_attempts' = Cardinality(AutoRestarts) + 1]_vars

\* C3: when stop_fuxkcomfy(force=false) returns success, neither the child with
\* the recorded identifier nor any of its descendants is alive, descendants that
\* ignore the terminate request included.
C3_GracefulStopLeavesNoSurvivor ==
    [][\A c \in Clients :
          (/\ thr[c].pc = "stop_finish" /\ thr[c].op = "stop" /\ ~thr[c].force
           /\ thr'[c].pc = "done" /\ thr'[c].res.success)
              => /\ ~os'[thr[c].pid].alive
                 /\ os'[thr[c].pid].kids = {}]_vars

status ==
    [running |-> is_running,
     restart_attempts |-> restart_attempts,
     pid |-> IF process # 0 THEN process ELSE 0,
     remembered |-> process_pid,
     uptime |-> IF start_time # 0 THEN "elapsed" ELSE "none"]

\* C11: a status reader never sees running = true with an absent process
\* identifier nor running = false with a present one, whether the identifier is
\* the pid field of the answer or the identifier remembered for process_info.
C11_StatusNeverTorn ==
    /\ status.running <=> status.pid # 0
    /\ status.running <=> status.remembered # 0


\* C12: whenever stop_fuxkcomfy gets past the not-running checks and returns,
\* with success (lines 533-537) or with failure (lines 539-555), the stored
\* handle is cleared, so that status reports no pid, and is_running is false.
C12_StopClearsHandle ==
    [][\A c \in Clients :
          (thr[c].pc \in {"stop_finish", "stop_except"} /\ thr'[c] # thr[c])
              => /\ status'.pid = 0
                 /\ ~status'.running]_vars


\* the positions of a thread inside stop_fuxkcomfy
StopPcs ==
    {"stop", "stop_check", "stop_forget", "stop_kill", "stop_wincheck", "stop_wait",
     "stop_finish", "stop_except"}

\* C13: restart_fuxkcomfy enters start only from a stop that reported success;
\* when its stop reports failure, "Process not running" included, it returns
\* that failure and no process is spawned.
C13_RestartStartsOnlyAfterStop ==
    [][\A c \in Clients :
          (thr[c].op = "restart" /\ thr[c].pc \in StopPcs)
              => /\ thr'[c].pc = "start"
                      => /\ thr[c].pc = "stop_finish"
                         /\ thr'[c].res = Result(TRUE, <<"Process stopped">>, 0)
                 /\ thr'[c].pc = "done"
                      => /\ ~thr'[c].res.success
                         /\ thr'[c].res.message[1] \in {"Process not running", "Stop failed: "}
                         /\ Len(os') = Len(os)
                         /\ history' = history
                 /\ thr'[c].pc \in StopPcs \cup {"start", "done"}]_vars

\* a restart of a running child whose stop failed: the failure was returned and
\* the one child ever spawned is that of the first start
C13_Witness ==
    \E c \in Clients :
        /\ thr[c].op = "restart" /\ thr[c].pc = "done"
        /\ thr[c].res = Result(FALSE, <<"Stop failed: ", "<error>">>, 0)
        /\ Len(os) = 1 /\ Len(history) = 1


\* a step in which the spawn of thread t fails and start_fuxkcomfy returns
SpawnFails(t) ==
    /\ thr[t].pc = "spawn"
    /\ thr'[t] # thr[t]
    /\ Len(os') = Len(os)

\* what C14 says of a failed spawn apart from the identifier: the failure is
\* returned with its message, nothing is retried, no reader and no monitor is
\* started, is_running is false, restart counter and start time are unchanged
FailedSpawnLeavesIdle(t) ==
    /\ thr'[t].pc = "done"
    /\ thr'[t].res = Result(FALSE, <<"Start failed: ", "<error>">>, 0)
    /\ \A u \in ThreadIds \ {t} : thr'[u] = thr[u]
    /\ ~status'.running
    /\ restart_attempts' = restart_attempts
    /\ start_time' = start_time

C15_ReadErrorEndsLikeEOF ==
    [][\A r \in Readers :
          (thr[r].pc = "read" /\ thr'[r].pc = "done")
              => /\ LastLog'.level = "error"
                 /\ LastLog'.message[1] = "Output reader error: "
                 /\ ~is_running'
                 /\ process_pid' = 0]_vars


\* C16: when a health monitor finds that the child has exited and auto_restart
\* is off or restart_attempts has reached max_restart_attempts, it sets
\* is_running false and ends its loop.
C16_MonitorMarksStopped ==
    [][\A m \in Monitors :
          (/\ thr[m].pc = "poll" /\ thr'[m] # thr[m]
           /\ process # 0 /\ ~os[process].alive
           /\ \/ ~Truthy(get_config_value(config, "auto_restart", PyBool(FALSE)))
              \/ restart_attempts >= get_config_value(config, "max_restart_attempts", PyInt(3)).v)
              => /\ ~is_running'
                 /\ thr'[m].pc = "done"]_vars


LiveChildren == {k \in 1..Len(os) : os[k].alive}

\* C19: at every moment at most one child process spawned by the supervisor is
\* alive, whatever the interleaving of the requests and the monitors' restarts.
C19_AtMostOneChildAlive == Cardinality(LiveChildren) <= 1


\* C18: under fair scheduling the running flag does not stay true for ever
\* while no child is alive: again and again the flag is false or a child lives,
\* whether or not the output reader failed.
C18_RunningWithoutChildEnds == []<>(~is_running \/ LiveChildren # {})


\* C20: after any sequence of starts the persisted history document and the
\* history the history query returns each hold at most 50 entries.
C20_HistoryAtMostFifty ==
    /\ Len(history_file) <= HistoryKeep
    /\ Len(history) <= HistoryKeep


\* C21: a preset collection that contains "default" contains it after any
\* sequence of save-preset and delete-preset requests, and a delete request for
\* "default" returns success=false and changes neither the collection nor the
\* preset document.
C21_DefaultPresetStays ==
    /\ [](Lit("default") \in DOMAIN presets)
    /\ [][(ret'.op = "delete_preset" /\ ret'.name = Lit("default"))
             => (~ret'.success /\ UNCHANGED presetVars)]_vars

\* "default" was overwritten by a save, the other presets were deleted, and the
\* last request, a delete of "default", was refused
C21_Witness ==
    /\ ret = [op |-> "delete_preset", name |-> Lit("default"), success |-> FALSE]
    /\ DOMAIN presets = {Lit("default")}
    /\ presets[Lit("default")] = ClientPreset


\* C22: a get_logs query that runs while other threads append to the log or
\* clear it completes without error and returns whole entries in append order:
\* the filtered entries of the buffer as it stands when the query returns.
C22_ConcurrentQueryCompletes ==
    [][(query.pc = "loop" /\ query'.pc = "none")
          => /\ ~ret'.raised
             /\ ret'.result = get_logs(logs, query.level_filter, query.search,
                                       query.limit)]_vars


\* the last request served was a stop that returned success, and no request has
\* arrived since
StoppedByRequest ==
    \E c \in Clients :
        /\ thr[c].pc = "done" /\ thr[c].op = "stop"
        /\ thr[c].res.success

\* C25: with auto_restart on, once stop_fuxkcomfy has returned success no new
\* child is spawned and is_running stays false until the next start or restart
\* request.
C25_StopIsNoCrash ==
    /\ [](StoppedByRequest => ~is_running)
    /\ [][(StoppedByRequest /\ StoppedByRequest') => Len(os') = Len(os)]_vars


\* C26: with auto_restart on, the restart counter below the maximum and every
\* spawn succeeding, the unexpected exit of a child is eventually followed by a
\* new child, in whatever order the output reader and the health monitor come to
\* see the exit.  (The model spawns MaxStarts children at most, so the exit of
\* the last of them is left out.)
C26_ExitIsFollowedByRestart ==
    \A k \in 1..(MaxStarts - 1) : (Len(os) = k /\ ~os[k].alive) ~> (Len(os) > k)


\* C27: the output reader of one lifetime never sets is_running false, clears
\* the remembered identifier or records a crash while a child spawned by a later
\* start is alive.
C27_ReaderKeepsToItsLifetime ==
    [][\A r \in Readers :
          (/\ thr[r].pc \in {"read", "join", "wait"} /\ thr'[r] # thr[r]
           /\ \/ is_running /\ ~is_running'
              \/ process_pid # 0 /\ process_pid' = 0
              \/ last_crash_time' # last_crash_time)
              => ~\E k \in (r[2] + 1)..Len(os) : os[k].alive]_vars


\* the health monitors that have been started and have not returned
ActiveMonitors == {m \in Monitors : thr[m].pc \notin {"none", "done"}}

\* C28: a health monitor never polls a process spawned by a later start than
\* the one that started it, and once a restart has returned success and its
\* child runs, exactly one health monitor is active.
C28_OneMonitorPerLifetime ==
    /\ [][\A m \in Monitors :
             (thr[m].pc = "poll" /\ thr'[m] # thr[m]) => process <= m[2]]_vars
    /\ []((\E c \in Clients : /\ thr[c].pc = "done" /\ thr[c].op = "restart"
                               /\ thr[c].res.success
                               /\ is_running /\ process # 0 /\ os[process].alive)
              => Cardinality(ActiveMonitors) = 1)


\* C29: one invocation of the health monitor decides once: the poll that finds
\* the child gone is its first decision and leads to one call of
\* start_fuxkcomfy or to the end of the thread, and a monitor that has decided
\* never comes back to its loop.
C29_MonitorDecidesOnce ==
    [][\A m \in Monitors :
          /\ (thr[m].pc = "poll" /\ thr'[m] # thr[m] /\ process # 0 /\ ~os[process].alive)
                 => /\ thr[m].op = "none"
                    /\ thr'[m].pc \in {"count", "done"}
          /\ (thr[m].pc = "count" /\ thr'[m] # thr[m])
                 => /\ thr[m].op = "none"
                    /\ thr'[m].pc = "start"
                    /\ restart_attempts' = restart_attempts + 1
          /\ thr[m].op \in {"auto_restart", "gave_up"}
                 => /\ thr'[m].pc \notin {"while", "poll"}
                    /\ thr'[m].op = thr[m].op
          /\ thr[m].pc = "done" => thr'[m] = thr[m]]_vars

\* one monitor has given up and ended while another, which had decided to
\* restart, has had its start refused and ended too
C29_Witness ==
    \E m, n \in Monitors :
        /\ thr[m].pc = "done" /\ thr[m].op = "gave_up"
        /\ thr[n].pc = "done" /\ thr[n].op = "auto_restart"


(* Claims about the two severities of stop_fuxkcomfy, checked under Spec *)

\* the descendants a stop thread has on record when its wait ends: the list
\* taken at line 495, or on Windows the tree taskkill /T walks
RecordedKids(t) == IF platform = "Windows" THEN os[thr[t].pid].kids ELSE thr[t].kids

C31_StopWithNothingChangesNothing ==
    [][\A c \in Clients :
          (thr[c].pc = "stop" /\ process = 0 /\ process_pid = 0 /\ thr'[c] # thr[c])
              => /\ thr'[c].pc = "done"
                 /\ thr'[c].res = Result(FALSE, <<"Process not running">>, 0)
                 /\ UNCHANGED <<is_running, process, process_pid, start_time,
                                restart_attempts, logs, os>>]_vars

\* a stop request on a launcher that never started a child has been refused
C31_Witness ==
    \E c \in Clients :
        /\ thr[c].pc = "done"
        /\ thr[c].op = "stop"
        /\ thr[c].res = Result(FALSE, <<"Process not running">>, 0)
        /\ process = 0
        /\ process_pid = 0
        /\ Len(os) = 0
        /\ logs = << >>


\* C32: stop_fuxkcomfy with a stored handle and is_running false asks the
\* operating system first: a process that is alive makes it set is_running and
\* go on to terminate it; a process that does not exist makes it clear the
\* handle and the remembered identifier and return "Process not running".  So a
\* stop after the child ended by itself fails, leaves nothing stored, and the
\* start that follows is not refused.
C32_StaleFlagIsReconciled ==
    /\ [][\A c \in Clients :
            /\ (/\ thr[c].pc = "stop_check" /\ ~is_running /\ process # 0
                /\ thr'[c] # thr[c])
                   => IF Exists(thr[c].pid)
                      THEN /\ is_running'
                           /\ process' = process
                           /\ os' = os
                           /\ thr'[c].pc = "stop_kill"
                      ELSE /\ ~is_running'
                           /\ process' = 0
                           /\ thr'[c].pc = "stop_forget"
            /\ (thr[c].pc = "stop_forget" /\ thr'[c] # thr[c])
                   => /\ process' = 0
                      /\ process_pid' = 0
                      /\ ~is_running'
                      /\ thr'[c].pc = "done"
                      /\ thr'[c].res = Result(FALSE, <<"Process not running">>, 0)
            /\ (/\ thr[c].pc = "start" /\ process = 0 /\ process_pid = 0 /\ Len(os) > 0
                /\ thr'[c] # thr[c])
                   => thr'[c].pc = "spawn"]_vars
    /\ [](\A c \in Clients :
            (thr[c].pc = "done" /\ thr[c].res = Result(FALSE, <<"Process not running">>, 0))
                => (~is_running /\ process = 0 /\ process_pid = 0))

\* the child ended by itself, a stop found the handle with is_running false and
\* cleared it, and the start requested next has passed the already-running check
C32_Witness ==
    \E c \in Clients :
        /\ thr[c].op = "start"
        /\ thr[c].pc = "spawn"
        /\ thr[c].served = 3
        /\ Len(os) = 1
        /\ ~os[1].alive
        /\ os[1].code \in {PyInt(x) : x \in ExitCodes}
        /\ process = 0
        /\ process_pid = 0

\* a stop has found a living child behind a handle with is_running false, has set
\* the flag and is about to terminate the child
C32_WitnessAlive ==
    \E c \in Clients :
        /\ thr[c].op = "stop"
        /\ thr[c].pc = "stop_kill"
        /\ thr[c].served = 3
        /\ is_running
        /\ Exists(thr[c].pid)
        /\ Len(logs) >= 1
        /\ logs[Len(logs)].message =
              <<"Process ", ToString(thr[c].pid), " is actually running, correcting state...">>


(* Claims about clear_logs, checked under SpecLog *)

\* C33: after clear_logs, with no append running beside it, the buffer holds
\* exactly one entry, the info entry "Logs cleared", and so no entry appended
\* before the clear.
C33_ClearLeavesOneEntry ==
    /\ [][(ret'.op = "clear_logs" /\ <<logs, ret>>' # <<logs, ret>>)
             => logs' = << LogEntry(<<"Logs cleared">>, "info") >>]_vars
    /\ [](ret.op = "clear_logs" => logs = << LogEntry(<<"Logs cleared">>, "info") >>)

\* the buffer has been cleared, and what the clear left has been queried
C33_Witness ==
    /\ ret.op = "get_logs"
    /\ ret.level_filter = "all" /\ ret.search = << >> /\ ret.limit = LogCapacity
    /\ appended = << LogEntry(<<"Logs cleared">>, "info") >>
    /\ ret.result = << to_dict(LogEntry(<<"Logs cleared">>, "info")) >>


(* Claims about update_config, checked under SpecUpdate *)

\* C34: update_config merges: the key of the request body takes the new value,
\* every other key, those the command builder does not know included, keeps
\* its value, and the running flag, the handle, the remembered identifier, the
\* restart counter, the start time and the children are left as they were.
C34_UpdateMergesAndLeavesRunState ==
    [][(ret'.op = "update_config" /\ ret'.updates = ret.updates + 1)
          => /\ \E k \in RunUpdateKeys : \E v \in UpdateValues(k) :
                   /\ DOMAIN config' = DOMAIN config \cup {k}
                   /\ config'[k] = v
                   /\ \A other \in DOMAIN config \ {k} : config'[other] = config[other]
             /\ UNCHANGED <<is_running, process, process_pid, restart_attempts,
                            start_time, os, thr>>]_vars

\* the port was changed while the child ran: the child still runs, and the key
\* the persisted document brought and the builder does not know is still there
C34_Witness ==
    /\ ret.op = "update_config"
    /\ config["port"] = Lit("9000")
    /\ "custom_key" \in DOMAIN config
    /\ config["custom_key"] = Lit("x")
    /\ config["lowvram"] = PyBool(TRUE)
    /\ is_running
    /\ process # 0
    /\ os[process].alive
    /\ process_pid = process


(* Claims about the stored handle and the remembered identifier *)

\* C36: in every reachable state a missing handle goes with a missing
\* remembered identifier (system_monitor.process_pid), so that no stop takes
\* the branch that cleans up an orphaned identifier (lines 412-414).
C36_NoHandleNoIdentifier ==
    /\ [](process = 0 => process_pid = 0)
    /\ [][\A c \in Clients :
            (thr[c].pc = "stop" /\ thr'[c].pc = "stop_check") => process # 0]_vars


(* Claims about the restart counter, checked under SpecAuto *)

\* C37: with max_restart_attempts left as configured, the restart counter stays
\* between 0 and max_restart_attempts in every reachable state, also when more
\* than one health monitor is alive.
C37_CounterWithinMaximum ==
    /\ 0 <= restart_attempts
    /\ restart_attempts <= get_config_value(config, "max_restart_attempts", PyInt(3)).v


(* Claims about the start time, checked under Spec *)

\* no request is being served and no reader or monitor is at work
Quiescent == \A t \in ThreadIds : thr[t].pc \in {"none", "idle", "done"}

\* C38: whenever is_running is false and no operation is in progress, the start
\* time is absent and get_uptime (the uptime field of the status) returns none,
\* after a stop and also after the child has ended by itself.
C38_StoppedHasNoUptime ==
    (~is_running /\ Quiescent) => (start_time = 0 /\ status.uptime = "none")

=============================================================================
